---- MODULE Spec2Model ----
(***************************************************************************)
(* SPARK: rate-period matching, cost calculation, battery / solar /        *)
(* combined dispatch simulation and calendar aggregation.                  *)
(*                                                                         *)
(* Representation of numbers.  The TypeScript code computes in IEEE        *)
(* doubles; the model computes in fixed point:                             *)
(*   energy          0.01 kWh      (1 kWh = 100)                           *)
(*   power           0.01 kW                                               *)
(*   price           0.01 GBP/kWh  (pence per kWh)                         *)
(*   money           energy * price  (1 GBP = 10000)                       *)
(*   percentages     whole percents                                        *)
(*   timestamps      minutes of local wall-clock time since                *)
(*                   Monday 2024-01-01 00:00                               *)
(*   interval hours  kept doubled (intervalHours2 = 2 * intervalHours) so  *)
(*                   that the 0.5 h default is the integer 1               *)
(* A multiplication by a percentage is a multiplication followed by an     *)
(* integer division.  Results that can be NaN or +-Infinity in the code    *)
(* are tagged records (see FNum, FNaN, FInf).                              *)
(***************************************************************************)
EXTENDS Integers, Sequences, FiniteSets, TLC

VARIABLES
    ratePeriods,   \* RatePeriod[] handed to the function under analysis
    data,          \* ConsumptionDataPoint[] handed to the function
    matchTs,       \* timestamp of the last matchRatePeriod call (-1: none)
    matchOut,      \* what that call returned
    cost,          \* the running calculateTotalCost reduce
    sim,           \* which simulator runs: "battery", "solar" or "combined"
    batteryConfig, \* BatteryConfig handed to the simulator
    solarConfig,   \* SolarConfig handed to the simulator
    run,           \* the locals of the running simulator
    result,        \* the analysis the last finished run returned
    prev,          \* the analysis the run before it returned
    now,           \* the wall clock new Date() reads
    frame,         \* TimeFrame handed to aggregateByTimeFrame
    tz,            \* offset of local time from UTC, in minutes
    agg,           \* the running aggregateByTimeFrame
    url,           \* the running share-link round trip (encode, then decode)
    store          \* the state of useDataStore

rateVars == <<matchTs, matchOut, cost>>
simVars == <<sim, batteryConfig, solarConfig, run, result, prev, now>>
aggVars == <<frame, tz, agg>>
urlVars == <<url>>
storeVars == <<store>>
vars == <<ratePeriods, data, matchTs, matchOut, cost,
          sim, batteryConfig, solarConfig, run, result, prev, now,
          frame, tz, agg, url, store>>

----------------------------------------------------------------------------
(* Bounds *)

\* longest consumption series handed to a simulator
MaxLen == 3

\* latest time the wall clock shows
MaxClock == 1

\* longest consumption series handed to aggregateByTimeFrame
MaxPoints == 3


----------------------------------------------------------------------------
(* Optional fields and doubles that may be NaN or infinite *)

\* the value of an optional field that is not specified
Absent == -1

\* x || d on numbers: d when x is undefined or 0
OrDefault(x, d) == IF x = Absent \/ x = 0 THEN d ELSE x

Min2(a, b) == IF a <= b THEN a ELSE b
Max2(a, b) == IF a >= b THEN a ELSE b
Abs(a) == IF a < 0 THEN -a ELSE a

FNum(v) == [tag |-> "num", v |-> v]
FNaN == [tag |-> "NaN", v |-> 0]
FInf == [tag |-> "Infinity", v |-> 0]
FNegInf == [tag |-> "-Infinity", v |-> 0]

\* a / b on doubles, for finite a and b
FDiv(a, b) ==
    IF b # 0 THEN FNum(a \div b)
    ELSE IF a = 0 THEN FNaN
    ELSE IF a > 0 THEN FInf ELSE FNegInf

\* x * k for a double x and a finite k > 0
FTimes(x, k) == IF x.tag = "num" THEN FNum(x.v * k) ELSE x

\* x > 0 on doubles (false for NaN)
FPositive(x) == x.tag = "Infinity" \/ (x.tag = "num" /\ x.v > 0)

\* a / x for a finite a > 0 and a double x > 0
FInto(a, x) == IF x.tag = "Infinity" THEN FNum(0) ELSE FNum(a \div x.v)

\* Math.max(...values) of a sequence of finite numbers
RECURSIVE SeqMax(_)
SeqMax(q) ==
    IF q = <<>> THEN FNegInf
    ELSE LET rest == SeqMax(Tail(q))
         IN  IF rest.tag = "num" /\ rest.v > Head(q) THEN rest ELSE FNum(Head(q))

RECURSIVE SumConsumption(_)
SumConsumption(points) ==
    IF points = <<>> THEN 0 ELSE Head(points).consumption + SumConsumption(Tail(points))

----------------------------------------------------------------------------
(* Strings "HH:mm" and their comparison *)

MinutesPerDay == 24 * 60

\* UTF-16 code units of the characters the time strings are made of
Digit(d) == 48 + d
Colon == 58

\* the string "HH:mm" for hour h and minute m, as its code units
HHmm(h, m) == <<Digit(h \div 10), Digit(h % 10), Colon, Digit(m \div 10), Digit(m % 10)>>

\* date-fns format(timestamp, 'HH:mm'): local time of day, zero padded
FormatHHmm(ts) == HHmm((ts % MinutesPerDay) \div 60, ts % 60)

\* JavaScript's < on strings: lexicographic on code units, a proper prefix
\* is smaller
RECURSIVE StrLess(_, _)
StrLess(a, b) ==
    IF b = <<>> THEN FALSE
    ELSE IF a = <<>> THEN TRUE
    ELSE IF Head(a) # Head(b) THEN Head(a) < Head(b)
    ELSE StrLess(Tail(a), Tail(b))

StrGeq(a, b) == ~StrLess(a, b)
StrGreater(a, b) == StrLess(b, a)

----------------------------------------------------------------------------
(* Rate matching (pricingCalculator) *)

\* the value of ratePeriods[0] on an empty array, and of a missing result
Undefined == [id |-> "undefined"]

\* faulty variant of isTimeInRange: the end of the window is included
IsTimeInRangeInclusiveEnd(time, startTime, endTime) ==
    IF StrGreater(startTime, endTime)
    THEN StrGeq(time, startTime) \/ ~StrGreater(time, endTime)
    ELSE StrGeq(time, startTime) /\ ~StrGreater(time, endTime)

\* startTime, endTime and time are compared as 'HH:mm' strings
isTimeInRange(time, startTime, endTime) ==
    IF StrGreater(startTime, endTime)
    THEN \* cross-midnight period
         StrGeq(time, startTime) \/ StrLess(time, endTime)
    ELSE \* normal period
         StrGeq(time, startTime) /\ StrLess(time, endTime)

\* indexes of the periods whose window contains the time of day of ts
Containing(ts, periods) ==
    {i \in 1..Len(periods) :
        isTimeInRange(FormatHHmm(ts), periods[i].startTime, periods[i].endTime)}

Minimum(S) == CHOOSE x \in S : \A y \in S : x <= y
Maximum(S) == CHOOSE x \in S : \A y \in S : x >= y

\* faulty variant of MatchIndex: the last containing period wins
MatchIndexLast(ts, periods) ==
    IF Containing(ts, periods) = {} THEN 0 ELSE Maximum(Containing(ts, periods))

\* index the for-loop returns from; 0 when it runs to its end
MatchIndex(ts, periods) ==
    IF Containing(ts, periods) = {} THEN 0 ELSE Minimum(Containing(ts, periods))

matchRatePeriod(ts, periods) ==
    IF MatchIndex(ts, periods) # 0 THEN periods[MatchIndex(ts, periods)]
    ELSE \* default to first period if no match
         IF Len(periods) = 0 THEN Undefined ELSE periods[1]

----------------------------------------------------------------------------
(* Inputs *)

Period(id, s, e, rate) == [id |-> id, startTime |-> s, endTime |-> e, ratePerKwh |-> rate]

\* the worked example: the windows of Intelligent Octopus Go, standard rate 0.30
ExampleTariff ==
    << Period("cheap", HHmm(23, 30), HHmm(5, 30), 7),
       Period("standard", HHmm(5, 30), HHmm(23, 30), 30) >>

\* windows that leave 05:00-16:00 and 19:00-24:00 uncovered
GapTariff ==
    << Period("peak", HHmm(16, 0), HHmm(19, 0), 40),
       Period("night", HHmm(0, 0), HHmm(5, 0), 7) >>

\* windows that overlap between 06:00 and 12:00
OverlapTariff ==
    << Period("morning", HHmm(0, 0), HHmm(12, 0), 10),
       Period("late", HHmm(6, 0), HHmm(0, 0), 25) >>

\* two cheap windows at the same rate, at night and around midday
TwinCheapTariff ==
    << Period("night", HHmm(23, 30), HHmm(5, 30), 7),
       Period("morning", HHmm(5, 30), HHmm(12, 0), 30),
       Period("midday", HHmm(12, 0), HHmm(14, 0), 7),
       Period("evening", HHmm(14, 0), HHmm(23, 30), 30) >>

\* a flat tariff as the presets write it: 00:00 - 00:00
FlatTariff == << Period("flat", HHmm(0, 0), HHmm(0, 0), 25) >>

EmptyTariff == << >>

Point(c, s, e) == [consumption |-> c, start |-> s, end |-> e]

\* n contiguous intervals of len minutes and c Wh each, from start
Uniform(start, len, c, n) == [i \in 1..n |-> Point(c, start + (i - 1) * len, start + i * len)]

\* one day of 48 half-hour intervals of 0.5 kWh
ExampleDay(start) == Uniform(start, 30, 50, 48)

ExampleDayStarts == {0, 330, 1410, 15}

\* timestamps handed to matchRatePeriod: every quarter of an hour of a day
MatchTimestamps == {15 * k : k \in 0..95}

RateTariffs == {ExampleTariff, GapTariff, OverlapTariff, FlatTariff, EmptyTariff}

RateSeries ==
    {ExampleDay(s) : s \in ExampleDayStarts}
      \cup {Uniform(s, 60, 100, n) : s \in {0, 300, 960}, n \in 0..MaxLen}

----------------------------------------------------------------------------
(* Durations *)

\* Math.round(n / d) for d > 0: halves round towards +Infinity
RoundDiv(n, d) == (2 * n + d) \div (2 * d)

\* date-fns differenceInHours(laterDate, earlierDate, {roundingMethod: 'round'}),
\* doubled
differenceInHours2(laterDate, earlierDate) == 2 * RoundDiv(laterDate - earlierDate, 60)

\* differenceInHours(point.end, point.start, ...) || 0.5, doubled
IntervalHours2(point) ==
    IF differenceInHours2(point.end, point.start) = 0 THEN 1
    ELSE differenceInHours2(point.end, point.start)

----------------------------------------------------------------------------
(* Battery simulation (batterySimulator) *)

\* faulty variant of Min3: the first limit (the energy or room in the
\* battery) is left out
Min3WithoutFirst(a, b, c) == IF b <= c THEN b ELSE c

Min3(a, b, c) == Min2(a, Min2(b, c))

\* faulty variant of Clamp: the state of charge is stored as computed
ClampNone(x, lo, hi) == x

\* Math.max(lo, Math.min(hi, x))
Clamp(x, lo, hi) == Max2(lo, Min2(hi, x))

MinSoc(cfg) == (OrDefault(cfg.minimumSoc, 10) * cfg.capacity) \div 100
MaxSoc(cfg) == (OrDefault(cfg.maximumSoc, 100) * cfg.capacity) \div 100

CheapRate(periods) == Minimum({periods[i].ratePerKwh : i \in 1..Len(periods)})

\* ratePeriods.find(p => p.ratePerKwh === cheapRate)
CheapPeriod(periods) ==
    periods[Minimum({i \in 1..Len(periods) : periods[i].ratePerKwh = CheapRate(periods)})]

PeriodIds(periods) == {periods[i].id : i \in 1..Len(periods)}

\* faulty variant of RunInit: the battery starts with 1 kWh above its floor
RunInitCharged ==
    [pc |-> "run", idx |-> 1,
     stateOfCharge |-> ((OrDefault(batteryConfig.minimumSoc, 10) * batteryConfig.capacity) \div 100) + 100,
     totalSavings |-> 0,
     savingsByRate |-> [id \in {ratePeriods[i].id : i \in 1..Len(ratePeriods)} |-> 0],
     totalGeneration |-> 0, totalExported |-> 0, totalSelfConsumed |-> 0,
     totalBatteryCharged |-> 0, totalBatteryDischarged |-> 0,
     exportEarnings |-> 0, importSavings |-> 0,
     states |-> <<>>, generations |-> <<>>,
     hist |-> <<>>]

\* the locals of a simulator before its loop
RunInit ==
    [pc |-> "run", idx |-> 1, stateOfCharge |-> 0,
     totalSavings |-> 0,
     savingsByRate |-> [id \in PeriodIds(ratePeriods) |-> 0],
     totalGeneration |-> 0, totalExported |-> 0, totalSelfConsumed |-> 0,
     totalBatteryCharged |-> 0, totalBatteryDischarged |-> 0,
     exportEarnings |-> 0, importSavings |-> 0,
     states |-> <<>>, generations |-> <<>>,
     hist |-> <<>>]

\* a record of what one loop iteration did (history, not program state)
HistEntry(point, h2, prior, beforeClamp, charged, discharged, gridCharged) ==
    [start |-> point.start, end |-> point.end, intervalHours2 |-> h2,
     priorSoc |-> prior, beforeClamp |-> beforeClamp,
     charged |-> charged, discharged |-> discharged, gridCharged |-> gridCharged]

\* faulty variant of ChargingCost: the sign of the cost is lost
ChargingCostNegated(amount, rate) == -(amount * rate)

\* cost of charging: maxChargeAmount * currentRate.ratePerKwh
ChargingCost(amount, rate) == amount * rate

\* faulty variant of DischargeSavings: energy in the battery is taken to be free
DischargeSavingsAtFullRate(amount, rate, cheapRate) == amount * rate

\* savings from using battery instead of grid:
\* maxDischargeAmount * (currentRate.ratePerKwh - cheapRate)
DischargeSavings(amount, rate, cheapRate) == amount * (rate - cheapRate)

\* one iteration of simulateBattery's loop
BatteryStep ==
    /\ sim = "battery"
    /\ run.pc = "run"
    /\ run.idx <= Len(data)
    /\ LET point == data[run.idx]
           minSoc == MinSoc(batteryConfig)
           maxSoc == MaxSoc(batteryConfig)
           cheapRate == CheapRate(ratePeriods)
           cheapPeriod == CheapPeriod(ratePeriods)
           currentRate == matchRatePeriod(point.start, ratePeriods)
           intervalHours2 == IntervalHours2(point)
           soc == run.stateOfCharge
           isCheapPeriod == currentRate.id = cheapPeriod.id
           isExpensivePeriod == currentRate.ratePerKwh > cheapRate
           chargeBranch == isCheapPeriod /\ soc < maxSoc
           maxChargeAmount ==
               Min3(maxSoc - soc,
                    (batteryConfig.chargeRate * intervalHours2) \div 2,
                    point.consumption)
           charges == chargeBranch /\ maxChargeAmount > 0
           actualChargeAmount == (maxChargeAmount * batteryConfig.roundtripEfficiency) \div 100
           dischargeBranch == ~chargeBranch /\ isExpensivePeriod /\ soc > minSoc
           maxDischargeAmount ==
               Min3(soc - minSoc,
                    (batteryConfig.dischargeRate * intervalHours2) \div 2,
                    point.consumption)
           discharges == dischargeBranch /\ maxDischargeAmount > 0
           action == IF charges THEN "charging"
                     ELSE IF discharges THEN "discharging" ELSE "idle"
           powerFlow == IF charges THEN (2 * maxChargeAmount) \div intervalHours2
                        ELSE IF discharges THEN -((2 * maxDischargeAmount) \div intervalHours2)
                        ELSE 0
           periodSavings ==
               IF charges THEN -ChargingCost(maxChargeAmount, currentRate.ratePerKwh)
               ELSE IF discharges
                    THEN DischargeSavings(maxDischargeAmount, currentRate.ratePerKwh,
                                          cheapRate)
                    ELSE 0
           moved == IF charges THEN soc + actualChargeAmount
                    ELSE IF discharges THEN soc - maxDischargeAmount
                    ELSE soc
           stateOfCharge == Clamp(moved, minSoc, maxSoc)
       IN  run' = [run EXCEPT
               !.idx = @ + 1,
               !.stateOfCharge = stateOfCharge,
               !.states = Append(@,
                   [timestamp |-> point.start,
                    stateOfCharge |-> stateOfCharge,
                    socPercentage |-> (stateOfCharge * 100) \div batteryConfig.capacity,
                    action |-> action,
                    powerFlow |-> powerFlow]),
               !.totalSavings = @ + periodSavings,
               !.savingsByRate[currentRate.id] = @ + periodSavings,
               !.hist = Append(@,
                   HistEntry(point, intervalHours2, soc, moved,
                             IF charges THEN maxChargeAmount ELSE 0,
                             IF discharges THEN maxDischargeAmount ELSE 0, 0))]
    /\ UNCHANGED <<ratePeriods, data, sim, batteryConfig, solarConfig, result, prev, now>>
    /\ UNCHANGED <<rateVars, aggVars, urlVars, storeVars>>

DayOf(ts) == ts \div MinutesPerDay

\* the keys of dayGroups in insertion order
RECURSIVE DayKeys(_, _)
DayKeys(points, seen) ==
    IF points = <<>> THEN <<>>
    ELSE IF DayOf(Head(points).start) \in seen THEN DayKeys(Tail(points), seen)
    ELSE <<DayOf(Head(points).start)>>
            \o DayKeys(Tail(points), seen \cup {DayOf(Head(points).start)})

\* sum of f[i] over the indexes i of S
RECURSIVE SumOver(_, _)
SumOver(S, f) ==
    IF S = {} THEN 0
    ELSE LET i == CHOOSE x \in S : TRUE IN f[i] + SumOver(S \ {i}, f)

\* states.filter(discharging).reduce(sum + Math.abs(powerFlow) * 0.5), over
\* the states with index in S
DischargeEnergy(states, S) ==
    SumOver({i \in S : states[i].action = "discharging"},
            [i \in 1..Len(states) |-> Abs(states[i].powerFlow) \div 2])

\* coverage of the day group with key d
DayCoverage(points, states, d) ==
    LET group == {i \in 1..Len(points) : DayOf(points[i].start) = d}
        dayConsumption == SumOver(group, [i \in 1..Len(points) |-> points[i].consumption])
        batteryProvided == DischargeEnergy(states, group)
    IN  IF dayConsumption > 0 THEN (batteryProvided * 100) \div dayConsumption ELSE 0

\* dayGroups.forEach: acc is [total, min, worstDay]
RECURSIVE CoverageFold(_, _, _, _)
CoverageFold(keys, points, states, acc) ==
    IF keys = <<>> THEN acc
    ELSE LET coverage == DayCoverage(points, states, Head(keys))
         IN  CoverageFold(Tail(keys), points, states,
                [total |-> acc.total + coverage,
                 min |-> IF coverage < acc.min THEN coverage ELSE acc.min,
                 worstDay |-> IF coverage < acc.min
                              THEN Head(keys) * MinutesPerDay
                              ELSE acc.worstDay])

calculateWinterCoverage(points, states, clock) ==
    IF Len(points) = 0
    THEN [averageDailyCoverage |-> 0, minimumCoverage |-> 0,
          worstDay |-> clock]
    ELSE LET keys == DayKeys(points, {})
             acc == CoverageFold(keys, points, states,
                        [total |-> 0, min |-> 100, worstDay |-> points[1].start])
         IN  [averageDailyCoverage |-> acc.total \div Len(keys),
              minimumCoverage |-> acc.min,
              worstDay |-> acc.worstDay]

\* faulty variant of BatteryCost: the configured cost is ignored
BatteryCostFlat(cfg) == cfg.capacity * 50000

\* batteryConfig.cost || capacity * 500  (GBP 500 per kWh)
BatteryCost(cfg) == OrDefault(cfg.cost, cfg.capacity * 50000)

\* the lines of simulateBattery after its loop
BatteryAnalysis(r, clock) ==
    LET dailyAverageSavings == FDiv(r.totalSavings * 48, Len(data))
        annualEstimate == FTimes(dailyAverageSavings, 365)
        paybackPeriod == IF FPositive(annualEstimate)
                         THEN FInto(BatteryCost(batteryConfig), annualEstimate)
                         ELSE FInf
        totalDischargeEnergy == DischargeEnergy(r.states, 1..Len(r.states))
        totalConsumption == SumConsumption(data)
        peakWithoutBattery == SeqMax([i \in 1..Len(data) |-> data[i].consumption])
    IN  [batteryConfig |-> batteryConfig,
         totalSavings |-> r.totalSavings,
         dailyAverageSavings |-> dailyAverageSavings,
         annualEstimate |-> annualEstimate,
         paybackPeriod |-> paybackPeriod,
         selfConsumptionRate |-> FDiv(totalDischargeEnergy * 100, totalConsumption),
         peakShavingBenefit |-> IF peakWithoutBattery.tag = "num"
                                THEN FNum((peakWithoutBattery.v * 20) \div 100)
                                ELSE peakWithoutBattery,
         states |-> r.states,
         savingsByRate |-> r.savingsByRate,
         winterCoverage |-> calculateWinterCoverage(data, r.states, clock)]

\* simulateBattery leaves its loop and returns
BatteryFinish ==
    /\ sim = "battery"
    /\ run.pc = "run"
    /\ run.idx = Len(data) + 1
    /\ run' = [run EXCEPT !.pc = "done"]
    /\ IF Len(data) = 0
       THEN \* new Date(): the wall clock, which never runs backwards
            \E t \in now..MaxClock :
               /\ now' = t
               /\ result' = BatteryAnalysis(run, t)
       ELSE /\ now' = now
            /\ result' = BatteryAnalysis(run, now)
    /\ UNCHANGED <<ratePeriods, data, sim, batteryConfig, solarConfig, prev>>
    /\ UNCHANGED <<rateVars, aggVars, urlVars, storeVars>>

----------------------------------------------------------------------------
(* Calendar of the local wall clock *)

IsLeapYear(y) == (y % 4 = 0 /\ y % 100 # 0) \/ y % 400 = 0
DaysInYear(y) == IF IsLeapYear(y) THEN 366 ELSE 365

\* days of month m (0-11) of year y
DaysInMonth(y, m) ==
    IF m = 1 THEN (IF IsLeapYear(y) THEN 29 ELSE 28)
    ELSE IF m \in {3, 5, 8, 10} THEN 30 ELSE 31

EpochYear == 2024

RECURSIVE YearFrom(_, _)
YearFrom(y, d) ==
    IF d < DaysInYear(y) THEN [year |-> y, dayOfYear |-> d]
    ELSE YearFrom(y + 1, d - DaysInYear(y))

RECURSIVE MonthFrom(_, _, _)
MonthFrom(y, m, d) ==
    IF d < DaysInMonth(y, m) THEN [month |-> m, date |-> d + 1]
    ELSE MonthFrom(y, m + 1, d - DaysInMonth(y, m))

getYear(ts) == YearFrom(EpochYear, DayOf(ts)).year
\* date-fns getMonth: 0-11
getMonth(ts) ==
    MonthFrom(getYear(ts), 0, YearFrom(EpochYear, DayOf(ts)).dayOfYear).month
getDate(ts) ==
    MonthFrom(getYear(ts), 0, YearFrom(EpochYear, DayOf(ts)).dayOfYear).date
\* date-fns getHours
getHours(ts) == (ts % MinutesPerDay) \div 60

----------------------------------------------------------------------------
(* Solar estimation and the solar / combined simulations (solarSimulator) *)

\* peak sun hours per month, in tenths
peakSunHours == <<10, 15, 25, 40, 50, 55, 50, 45, 35, 25, 15, 10>>

\* orientationFactors[config.orientation] || 1.0, in tenths
OrientationFactor(o) ==
    IF o = "south" THEN 10
    ELSE IF o \in {"south-east", "south-west"} THEN 9
    ELSE IF o \in {"east", "west"} THEN 7
    ELSE IF o = "north" THEN 5
    ELSE 10

\* generation in 0.01 kW; scalingFactor in thousandths
estimateGeneration(ts, config, scalingFactor) ==
    LET hour == getHours(ts)
        month == getMonth(ts)
        isDaytime == hour >= 6 /\ hour <= 20
        hourFromNoon == Abs(13 - hour)
        \* 49 * Math.max(0, 1 - (hourFromNoon / 7) ** 2)
        elevationFactor == Max2(0, 49 - hourFromNoon * hourFromNoon)
        tiltFactor == 100 - Abs(config.tilt - 35)
        unscaled ==
            LET a == (config.capacity * peakSunHours[month + 1] * elevationFactor
                        * OrientationFactor(config.orientation) * tiltFactor) \div 100
                b == (a * config.panelEfficiency) \div 20
                c == (b * config.systemEfficiency) \div 100
            IN  c \div (55 * 49 * 10)
    IN  IF ~isDaytime THEN 0
        ELSE Max2(0, (unscaled * scalingFactor) \div 1000)

RECURSIVE EstimatedTotal(_, _)
EstimatedTotal(points, config) ==
    IF points = <<>> THEN 0
    ELSE (estimateGeneration(Head(points).start, config, 1000)
             * IntervalHours2(Head(points))) \div 2
           + EstimatedTotal(Tail(points), config)

\* faulty variant of calculateScalingFactor: the predicted output is ignored
NoScaling(points, config) == 1000

\* scaling factor in thousandths
calculateScalingFactor(points, config) ==
    IF config.predictedAnnualOutput = Absent \/ config.predictedAnnualOutput = 0
    THEN 1000
    ELSE IF EstimatedTotal(points, config) = 0 THEN 1000
    ELSE LET annualizedEstimate ==
                 ((EstimatedTotal(points, config) * 48) \div Len(points)) * 365
         IN  (config.predictedAnnualOutput * 1000) \div annualizedEstimate

\* the default of the exportRate parameter: 0.15 GBP/kWh
exportRate == 15

\* one iteration of simulateSolar's loop
SolarStep ==
    /\ sim = "solar"
    /\ run.pc = "run"
    /\ run.idx <= Len(data)
    /\ LET point == data[run.idx]
           intervalHours2 == IntervalHours2(point)
           currentRate == matchRatePeriod(point.start, ratePeriods)
           generationKw ==
               estimateGeneration(point.start, solarConfig,
                                  calculateScalingFactor(data, solarConfig))
           generationKwh == (generationKw * intervalHours2) \div 2
           consumptionKwh == point.consumption
           consumed == Min2(generationKwh, consumptionKwh)
           exported == Max2(0, generationKwh - consumptionKwh)
       IN  run' = [run EXCEPT
               !.idx = @ + 1,
               !.totalGeneration = @ + generationKwh,
               !.totalExported = @ + exported,
               !.totalSelfConsumed = @ + consumed,
               !.exportEarnings = @ + exported * exportRate,
               !.importSavings = @ + consumed * currentRate.ratePerKwh,
               !.generations = Append(@,
                   [timestamp |-> point.start,
                    generation |-> generationKw,
                    consumed |-> (2 * consumed) \div intervalHours2,
                    exported |-> (2 * exported) \div intervalHours2,
                    batteryCharged |-> 0]),
               !.hist = Append(@,
                   HistEntry(point, intervalHours2, 0, 0, 0, 0, 0))]
    /\ UNCHANGED <<ratePeriods, data, sim, batteryConfig, solarConfig, result, prev, now>>
    /\ UNCHANGED <<rateVars, aggVars, urlVars, storeVars>>

\* solarConfig.cost || capacity * 1200  (GBP 1200 per kW)
SolarCost(cfg) == OrDefault(cfg.cost, cfg.capacity * 120000)

\* the lines of simulateSolar after its loop
SolarAnalysis(r) ==
    LET totalSavings == r.exportEarnings + r.importSavings
        dailyAverageSavings == FDiv(totalSavings * 48, Len(data))
        annualEstimate == FTimes(dailyAverageSavings, 365)
    IN  [solarConfig |-> solarConfig,
         totalGeneration |-> r.totalGeneration,
         totalExported |-> r.totalExported,
         totalSelfConsumed |-> r.totalSelfConsumed,
         exportEarnings |-> r.exportEarnings,
         importSavings |-> r.importSavings,
         totalSavings |-> totalSavings,
         dailyAverageSavings |-> dailyAverageSavings,
         annualEstimate |-> annualEstimate,
         paybackPeriod |-> IF FPositive(annualEstimate)
                           THEN FInto(SolarCost(solarConfig), annualEstimate)
                           ELSE FInf,
         selfConsumptionRate |-> IF r.totalGeneration > 0
                                 THEN FNum((r.totalSelfConsumed * 100) \div r.totalGeneration)
                                 ELSE FNum(0),
         generations |-> r.generations]

\* simulateSolar leaves its loop and returns
SolarFinish ==
    /\ sim = "solar"
    /\ run.pc = "run"
    /\ run.idx = Len(data) + 1
    /\ run' = [run EXCEPT !.pc = "done"]
    /\ result' = SolarAnalysis(run)
    /\ UNCHANGED <<ratePeriods, data, sim, batteryConfig, solarConfig, prev, now>>
    /\ UNCHANGED <<rateVars, aggVars, urlVars, storeVars>>

\* the locals of one iteration of simulateSolarWithBattery's loop, as declared
IterationLocals(point) ==
    [point |-> point,
     intervalHours2 |-> IntervalHours2(point),
     currentRate |-> matchRatePeriod(point.start, ratePeriods),
     generationKw |-> estimateGeneration(point.start, solarConfig,
                                         calculateScalingFactor(data, solarConfig)),
     generationKwh |-> 0,
     prior |-> run.stateOfCharge,
     stateOfCharge |-> run.stateOfCharge,
     consumed |-> 0,
     batteryCharged |-> 0,
     batteryDischarged |-> 0,
     gridCharged |-> 0,
     action |-> "idle",
     powerFlow |-> 0,
     availableSolar |-> 0,
     remainingDemand |-> point.consumption]

\* const isCheapPeriod = currentRate.id === cheapPeriod.id
IsCheapPeriod(s) == s.currentRate.id = CheapPeriod(ratePeriods).id

\* direct consumption from solar
DirectConsumption(s) ==
    LET generationKwh == (s.generationKw * s.intervalHours2) \div 2
        directUse == Min2(generationKwh, s.remainingDemand)
    IN  [s EXCEPT !.generationKwh = generationKwh,
                  !.consumed = @ + directUse,
                  !.availableSolar = generationKwh - directUse,
                  !.remainingDemand = @ - directUse]

\* faulty variant of ChargeFromSolar: the energy stored stays in availableSolar
ChargeFromSolarAndExport(s, maxSoc) ==
    IF s.availableSolar > 0 /\ s.stateOfCharge < maxSoc
    THEN LET maxCharge == Min3(maxSoc - s.stateOfCharge,
                               (batteryConfig.chargeRate * s.intervalHours2) \div 2,
                               s.availableSolar)
         IN  [s EXCEPT
                 !.stateOfCharge =
                     @ + (maxCharge * batteryConfig.roundtripEfficiency) \div 100,
                 !.batteryCharged = maxCharge,
                 !.action = "charging",
                 !.powerFlow = (2 * maxCharge) \div s.intervalHours2]
    ELSE s

\* charge battery from excess solar (if space available)
ChargeFromSolar(s, maxSoc) ==
    IF s.availableSolar > 0 /\ s.stateOfCharge < maxSoc
    THEN LET maxCharge == Min3(maxSoc - s.stateOfCharge,
                               (batteryConfig.chargeRate * s.intervalHours2) \div 2,
                               s.availableSolar)
         IN  [s EXCEPT
                 !.stateOfCharge =
                     @ + (maxCharge * batteryConfig.roundtripEfficiency) \div 100,
                 !.batteryCharged = maxCharge,
                 !.availableSolar = @ - maxCharge,
                 !.action = "charging",
                 !.powerFlow = (2 * maxCharge) \div s.intervalHours2]
    ELSE s

\* discharge battery to meet remaining demand (during expensive periods)
DischargeToDemand(s, minSoc) ==
    IF s.remainingDemand > 0 /\ s.stateOfCharge > minSoc /\ ~IsCheapPeriod(s)
    THEN LET maxDischarge == Min3(s.stateOfCharge - minSoc,
                                  (batteryConfig.dischargeRate * s.intervalHours2) \div 2,
                                  s.remainingDemand)
         IN  [s EXCEPT
                 !.stateOfCharge = @ - maxDischarge,
                 !.batteryDischarged = maxDischarge,
                 !.consumed = @ + maxDischarge,
                 !.remainingDemand = @ - maxDischarge,
                 !.action = "discharging",
                 !.powerFlow = -((2 * maxDischarge) \div s.intervalHours2)]
    ELSE s

\* faulty variant of ChargeFromGrid: the test action === 'idle' is left out
ChargeFromGridWhenBusy(s, maxSoc) ==
    IF IsCheapPeriod(s) /\ s.stateOfCharge < maxSoc
    THEN LET maxGridCharge == Min2(maxSoc - s.stateOfCharge,
                                   (batteryConfig.chargeRate * s.intervalHours2) \div 2)
         IN  [s EXCEPT
                 !.stateOfCharge =
                     @ + (maxGridCharge * batteryConfig.roundtripEfficiency) \div 100,
                 !.gridCharged = maxGridCharge,
                 !.action = "charging",
                 !.powerFlow = (2 * maxGridCharge) \div s.intervalHours2]
    ELSE s

\* faulty variant of ChargeFromGrid: the energy bought is booked like solar
\* energy stored and consumed
ChargeFromGridBooked(s, maxSoc) ==
    IF IsCheapPeriod(s) /\ s.stateOfCharge < maxSoc /\ s.action = "idle"
    THEN LET maxGridCharge == Min2(maxSoc - s.stateOfCharge,
                                   (batteryConfig.chargeRate * s.intervalHours2) \div 2)
         IN  [s EXCEPT
                 !.stateOfCharge =
                     @ + (maxGridCharge * batteryConfig.roundtripEfficiency) \div 100,
                 !.gridCharged = maxGridCharge,
                 !.batteryCharged = maxGridCharge,
                 !.consumed = @ - maxGridCharge,
                 !.action = "charging",
                 !.powerFlow = (2 * maxGridCharge) \div s.intervalHours2]
    ELSE s

\* charge battery from grid during cheap period (if still has space)
ChargeFromGrid(s, maxSoc) ==
    IF IsCheapPeriod(s) /\ s.stateOfCharge < maxSoc /\ s.action = "idle"
    THEN LET maxGridCharge == Min2(maxSoc - s.stateOfCharge,
                                   (batteryConfig.chargeRate * s.intervalHours2) \div 2)
         IN  [s EXCEPT
                 !.stateOfCharge =
                     @ + (maxGridCharge * batteryConfig.roundtripEfficiency) \div 100,
                 !.gridCharged = maxGridCharge,
                 !.action = "charging",
                 !.powerFlow = (2 * maxGridCharge) \div s.intervalHours2]
    ELSE s

\* one iteration's blocks in the order of the loop body
CombinedIteration(point) ==
    ChargeFromGrid(
        DischargeToDemand(
            ChargeFromSolar(DirectConsumption(IterationLocals(point)),
                            MaxSoc(batteryConfig)),
            MinSoc(batteryConfig)),
        MaxSoc(batteryConfig))

\* export, clamp, totals, savings and the two records pushed by an iteration
CombinedAccumulate(r, s, stateOfCharge) ==
    [r EXCEPT
        !.idx = @ + 1,
        !.stateOfCharge = stateOfCharge,
        !.totalGeneration = @ + s.generationKwh,
        !.totalExported = @ + s.availableSolar,
        !.totalSelfConsumed = @ + s.consumed,
        !.totalBatteryCharged = @ + s.batteryCharged,
        !.totalBatteryDischarged = @ + s.batteryDischarged,
        !.exportEarnings = @ + s.availableSolar * exportRate,
        !.importSavings = @ + s.consumed * s.currentRate.ratePerKwh,
        !.generations = Append(@,
            [timestamp |-> s.point.start,
             generation |-> s.generationKw,
             consumed |-> (2 * s.consumed) \div s.intervalHours2,
             exported |-> (2 * s.availableSolar) \div s.intervalHours2,
             batteryCharged |-> (2 * s.batteryCharged) \div s.intervalHours2]),
        !.states = Append(@,
            [timestamp |-> s.point.start,
             stateOfCharge |-> stateOfCharge,
             socPercentage |-> (stateOfCharge * 100) \div batteryConfig.capacity,
             action |-> s.action,
             powerFlow |-> s.powerFlow]),
        !.hist = Append(@,
            HistEntry(s.point, s.intervalHours2, s.prior, s.stateOfCharge,
                      s.batteryCharged, s.batteryDischarged, s.gridCharged))]

\* the state of charge an iteration stores: Math.max(minSoc, Math.min(maxSoc, soc))
ClampedSoc(s) == Clamp(s.stateOfCharge, MinSoc(batteryConfig), MaxSoc(batteryConfig))

\* after the blocks of an iteration: limit the state of charge, then accumulate
CombinedCommit(r, s) == CombinedAccumulate(r, s, ClampedSoc(s))

\* one iteration of simulateSolarWithBattery's loop
CombinedStep ==
    /\ sim = "combined"
    /\ run.pc = "run"
    /\ run.idx <= Len(data)
    /\ run' = CombinedCommit(run, CombinedIteration(data[run.idx]))
    /\ UNCHANGED <<ratePeriods, data, sim, batteryConfig, solarConfig, result, prev, now>>
    /\ UNCHANGED <<rateVars, aggVars, urlVars, storeVars>>

\* the lines of simulateSolarWithBattery after its loop
CombinedAnalysis(r) ==
    LET totalSavings == r.exportEarnings + r.importSavings
        dailyAverageSavings == FDiv(totalSavings * 48, Len(data))
        annualEstimate == FTimes(dailyAverageSavings, 365)
        systemCost == SolarCost(solarConfig) + BatteryCost(batteryConfig)
        totalConsumption == SumConsumption(data)
    IN  [solarConfig |-> solarConfig,
         batteryConfig |-> batteryConfig,
         totalGeneration |-> r.totalGeneration,
         totalExported |-> r.totalExported,
         totalSelfConsumed |-> r.totalSelfConsumed,
         totalBatteryCharged |-> r.totalBatteryCharged,
         totalBatteryDischarged |-> r.totalBatteryDischarged,
         exportEarnings |-> r.exportEarnings,
         importSavings |-> r.importSavings,
         totalSavings |-> totalSavings,
         dailyAverageSavings |-> dailyAverageSavings,
         annualEstimate |-> annualEstimate,
         paybackPeriod |-> IF FPositive(annualEstimate)
                           THEN FInto(systemCost, annualEstimate)
                           ELSE FInf,
         selfSufficiencyRate |->
             IF totalConsumption > 0
             THEN FNum(((r.totalSelfConsumed + r.totalBatteryDischarged) * 100)
                           \div totalConsumption)
             ELSE FNum(0),
         generations |-> r.generations,
         batteryStates |-> r.states]

\* simulateSolarWithBattery leaves its loop and returns
CombinedFinish ==
    /\ sim = "combined"
    /\ run.pc = "run"
    /\ run.idx = Len(data) + 1
    /\ run' = [run EXCEPT !.pc = "done"]
    /\ result' = CombinedAnalysis(run)
    /\ UNCHANGED <<ratePeriods, data, sim, batteryConfig, solarConfig, prev, now>>
    /\ UNCHANGED <<rateVars, aggVars, urlVars, storeVars>>

----------------------------------------------------------------------------
(* Inputs of the simulators and the simulation specification *)

Battery(capacity, chargeRate, dischargeRate, efficiency, price, minimumSoc, maximumSoc) ==
    [capacity |-> capacity, chargeRate |-> chargeRate, dischargeRate |-> dischargeRate,
     roundtripEfficiency |-> efficiency, cost |-> price,
     minimumSoc |-> minimumSoc, maximumSoc |-> maximumSoc]

\* the "Medium (10 kWh)" preset as the store completes it
DefaultBattery == Battery(1000, 500, 500, 90, 60000000, 10, 100)

BatteryConfigs ==
    { DefaultBattery,
      \* a small battery with the optional fields left out
      Battery(200, 300, 300, 90, Absent, Absent, Absent),
      \* a lossless battery that may be emptied, kept below 80 %
      Battery(1000, 300, 300, 100, Absent, 0, 80),
      Battery(500, 300, 700, 90, 35000000, 20, 80) }

Solar(capacity, predictedAnnualOutput, orientation, tilt) ==
    [capacity |-> capacity, panelEfficiency |-> 20, systemEfficiency |-> 85,
     orientation |-> orientation, tilt |-> tilt,
     predictedAnnualOutput |-> predictedAnnualOutput, cost |-> Absent]

DefaultSolar == Solar(400, Absent, "south", 35)

\* a system whose generation is scaled to a predicted annual output; on a
\* series of a few midday intervals in June the unscaled estimate
\* annualises to some 17,000 to 36,000 kWh
ScaledSolar == Solar(400, 2000000, "east", 45)

SolarConfigs == { DefaultSolar, ScaledSolar }

\* the systems simulateSolarWithBattery is run on
CombinedConfigs ==
    { <<DefaultBattery, DefaultSolar>>,
      <<DefaultBattery, ScaledSolar>>,
      <<Battery(200, 300, 300, 90, Absent, Absent, Absent), DefaultSolar>>,
      <<Battery(1000, 300, 300, 100, Absent, 0, 80), ScaledSolar>>,
      <<Battery(500, 300, 700, 90, 35000000, 20, 80), DefaultSolar>>,
      \* a battery whose charge rate was entered as 0
      <<Battery(500, 0, 300, 90, Absent, Absent, Absent), DefaultSolar>> }

SimTariffs == {ExampleTariff, GapTariff, OverlapTariff, TwinCheapTariff}

\* interval lengths of a series, in minutes
IntervalLengths == {15, 30, 60}

\* consumption of an interval
Consumptions == {0, 400}

\* 2024-01-01 04:30 and 23:00, 2024-06-01 11:00
SimStarts == {270, 1380, 152 * MinutesPerDay + 660}

\* contiguous series: interval i has length len and consumption cs[i]
Series(start, len, cs) ==
    [i \in 1..Len(cs) |-> Point(cs[i], start + (i - 1) * len, start + i * len)]

SeqsUpTo(S, n) == UNION {[1..k -> S] : k \in 0..n}

\* the series above, and a sunny late morning with a small load followed by
\* a large one
SimSeries ==
    {Series(start, len, cs) :
        start \in SimStarts, len \in IntervalLengths, cs \in SeqsUpTo(Consumptions, MaxLen)}
      \cup {Series(152 * MinutesPerDay + 660, len, <<100, 400>>) : len \in IntervalLengths}

None == [kind |-> "none"]

\* the simulator variables while no simulator is under analysis
SimUnused ==
    /\ sim = "none"
    /\ batteryConfig = DefaultBattery
    /\ solarConfig = DefaultSolar
    /\ run = [pc |-> "none"]
    /\ result = None
    /\ prev = None
    /\ now = 0

RateUnused ==
    /\ matchTs = -1
    /\ matchOut = Undefined
    /\ cost = [pc |-> "none"]

\* the aggregation variables while no aggregation is under analysis
AggUnused ==
    /\ frame = "day"
    /\ tz = 0
    /\ agg = [pc |-> "none"]

\* the share-link variable while no link is under analysis
UrlUnused == url = [pc |-> "none"]

\* the store variable while the store is not under analysis
StoreUnused == store = [pc |-> "none"]

InitSim ==
    /\ ratePeriods \in SimTariffs
    /\ data \in SimSeries
    /\ sim \in {"battery", "solar", "combined"}
    /\ \E system \in (IF sim = "battery" THEN BatteryConfigs \X {DefaultSolar}
                        ELSE IF sim = "solar" THEN {DefaultBattery} \X SolarConfigs
                        ELSE CombinedConfigs) :
          /\ batteryConfig = system[1]
          /\ solarConfig = system[2]
    /\ run = RunInit
    /\ result = None
    /\ prev = None
    /\ now = 0
    /\ RateUnused
    /\ AggUnused
    /\ UrlUnused
    /\ StoreUnused

\* the caller runs the same simulator again on the same arguments
Rerun ==
    /\ run.pc = "done"
    /\ prev = None
    /\ prev' = result
    /\ run' = RunInit
    /\ UNCHANGED <<ratePeriods, data, sim, batteryConfig, solarConfig, result, now>>
    /\ UNCHANGED <<rateVars, aggVars, urlVars, storeVars>>

NextSim ==
    \/ BatteryStep \/ BatteryFinish
    \/ SolarStep \/ SolarFinish
    \/ CombinedStep \/ CombinedFinish
    \/ Rerun

SpecSim == InitSim /\ [][NextSim]_vars

----------------------------------------------------------------------------
(* Formatted dates and localeCompare *)

Space == 32
Hyphen == 45

TwoDigits(n) == <<Digit(n \div 10), Digit(n % 10)>>
FourDigits(n) ==
    <<Digit(n \div 1000), Digit((n \div 100) % 10), Digit((n \div 10) % 10), Digit(n % 10)>>

\* the decimal digits of n >= 0
RECURSIVE Decimal(_)
Decimal(n) == IF n < 10 THEN <<Digit(n)>> ELSE Decimal(n \div 10) \o <<Digit(n % 10)>>

\* format(.., 'MMM'): Jan Feb Mar Apr May Jun Jul Aug Sep Oct Nov Dec
MonthNames ==
    << <<74, 97, 110>>, <<70, 101, 98>>, <<77, 97, 114>>, <<65, 112, 114>>,
       <<77, 97, 121>>, <<74, 117, 110>>, <<74, 117, 108>>, <<65, 117, 103>>,
       <<83, 101, 112>>, <<79, 99, 116>>, <<78, 111, 118>>, <<68, 101, 99>> >>

\* format(ts, 'yyyy'), 'yyyy-MM', 'yyyy-MM-dd', 'MMM yyyy', 'MMM dd, yyyy'
FormatYear(ts) == FourDigits(getYear(ts))
FormatYearMonth(ts) == FormatYear(ts) \o <<Hyphen>> \o TwoDigits(getMonth(ts) + 1)
FormatDate(ts) == FormatYearMonth(ts) \o <<Hyphen>> \o TwoDigits(getDate(ts))
FormatMonthYear(ts) == MonthNames[getMonth(ts) + 1] \o <<Space>> \o FormatYear(ts)
FormatLongDate(ts) ==
    MonthNames[getMonth(ts) + 1] \o <<Space>> \o TwoDigits(getDate(ts))
        \o <<44, Space>> \o FormatYear(ts)

\* primary collation weight of a character: punctuation, then digits, then
\* letters in alphabetical order whatever their case
CollationWeight(c) ==
    IF c >= 48 /\ c <= 57 THEN 100 + (c - 48)
    ELSE IF c >= 65 /\ c <= 90 THEN 200 + (c - 65)
    ELSE IF c >= 97 /\ c <= 122 THEN 200 + (c - 97)
    ELSE c

\* a.localeCompare(b) < 0
RECURSIVE LocaleLess(_, _)
LocaleLess(a, b) ==
    IF b = <<>> THEN FALSE
    ELSE IF a = <<>> THEN TRUE
    ELSE IF CollationWeight(Head(a)) # CollationWeight(Head(b))
         THEN CollationWeight(Head(a)) < CollationWeight(Head(b))
    ELSE LocaleLess(Tail(a), Tail(b))

----------------------------------------------------------------------------
(* Aggregation (dataAggregator) *)

\* startOfDay, startOfWeek (weeks start on Monday; the epoch is a Monday),
\* startOfMonth, startOfYear
startOfDay(ts) == DayOf(ts) * MinutesPerDay
startOfWeek(ts) == (DayOf(ts) - (DayOf(ts) % 7)) * MinutesPerDay
startOfMonth(ts) == (DayOf(ts) - (getDate(ts) - 1)) * MinutesPerDay
startOfYear(ts) == (DayOf(ts) - YearFrom(EpochYear, DayOf(ts)).dayOfYear) * MinutesPerDay

\* the key function handed to groupBy, for each time frame
GroupKey(f, point) ==
    IF f = "week" THEN FormatDate(startOfWeek(point.start))
    ELSE IF f = "month" THEN FormatYearMonth(startOfMonth(point.start))
    ELSE IF f = "year" THEN FormatYear(startOfYear(point.start))
    ELSE FormatDate(startOfDay(point.start))

\* first day of the month the key 'yyyy-MM' names, as minutes since the epoch
RECURSIVE DaysBeforeYear(_)
DaysBeforeYear(y) == IF y <= EpochYear THEN 0 ELSE DaysInYear(y - 1) + DaysBeforeYear(y - 1)
RECURSIVE DaysBeforeMonth(_, _)
DaysBeforeMonth(y, m) == IF m = 0 THEN 0 ELSE DaysInMonth(y, m - 1) + DaysBeforeMonth(y, m - 1)

KeyYear(key) ==
    (key[1] - 48) * 1000 + (key[2] - 48) * 100 + (key[3] - 48) * 10 + (key[4] - 48)
KeyMonth(key) == (key[6] - 48) * 10 + (key[7] - 48) - 1

\* new Date(month + '-01'): midnight UTC of the first of the month, which is
\* tz minutes later on the local wall clock
MonthKeyDate(key, offset) ==
    (DaysBeforeYear(KeyYear(key)) + DaysBeforeMonth(KeyYear(key), KeyMonth(key)))
        * MinutesPerDay + offset

WeekOf == <<87, 101, 101, 107, Space, 111, 102, Space>>

\* the period label the map callback gives the group with this key
PeriodLabel(f, key, offset) ==
    IF f = "week" THEN WeekOf \o key
    ELSE IF f = "month" THEN FormatMonthYear(MonthKeyDate(key, offset))
    ELSE key

\* faulty variant of GroupAdd: a group keeps only its latest item
GroupReplace(groups, key, item) ==
    IF \E g \in 1..Len(groups) : groups[g].key = key
    THEN [g \in 1..Len(groups) |->
             IF groups[g].key = key
             THEN [key |-> key, points |-> <<item>>]
             ELSE groups[g]]
    ELSE Append(groups, [key |-> key, points |-> <<item>>])

\* the body of groupBy's loop: push to the group of the key, or start one;
\* a Map keeps its keys in insertion order
GroupAdd(groups, key, item) ==
    IF \E g \in 1..Len(groups) : groups[g].key = key
    THEN [g \in 1..Len(groups) |->
             IF groups[g].key = key
             THEN [key |-> key, points |-> Append(groups[g].points, item)]
             ELSE groups[g]]
    ELSE Append(groups, [key |-> key, points |-> <<item>>])

\* points.find(p => p.consumption === peakConsumption)
RECURSIVE FirstWith(_, _)
FirstWith(points, c) ==
    IF Head(points).consumption = c THEN Head(points) ELSE FirstWith(Tail(points), c)

createAggregatedData(period, points) ==
    LET totalConsumption == SumConsumption(points)
        peakConsumption == SeqMax([i \in 1..Len(points) |-> points[i].consumption]).v
    IN  [period |-> period,
         totalConsumption |-> totalConsumption,
         averageConsumption |-> totalConsumption \div Len(points),
         peakConsumption |-> peakConsumption,
         peakTime |-> FirstWith(points, peakConsumption).start,
         dataPointCount |-> Len(points)]

\* insert bucket b into the sorted sequence q, after the buckets that do not
\* compare greater (Array.prototype.sort is stable)
RECURSIVE InsertByPeriod(_, _)
InsertByPeriod(q, b) ==
    IF q = <<>> THEN <<b>>
    ELSE IF LocaleLess(b.period, Head(q).period) THEN <<b>> \o q
    ELSE <<Head(q)>> \o InsertByPeriod(Tail(q), b)

\* .sort((a, b) => a.period.localeCompare(b.period))
RECURSIVE SortByPeriod(_)
SortByPeriod(q) ==
    IF q = <<>> THEN <<>>
    ELSE InsertByPeriod(SortByPeriod(SubSeq(q, 1, Len(q) - 1)), q[Len(q)])

\* differenceInDays(end, start) for end >= start: full days
differenceInDays(laterDate, earlierDate) == (laterDate - earlierDate) \div MinutesPerDay

aggregateAll(points) ==
    LET start == points[1].start
        end == points[Len(points)].end
        period == FormatLongDate(start) \o <<Space, Hyphen, Space>> \o FormatLongDate(end)
                    \o <<Space, 40>> \o Decimal(differenceInDays(end, start))
                    \o <<Space, 100, 97, 121, 115, 41>>
    IN  createAggregatedData(period, points)

AggInit == [pc |-> "run", idx |-> 1, groups |-> <<>>, buckets |-> <<>>]

\* aggregateByTimeFrame on an empty series returns []
AggEmpty ==
    /\ agg.pc = "run"
    /\ Len(data) = 0
    /\ agg' = [agg EXCEPT !.pc = "done"]
    /\ UNCHANGED <<ratePeriods, data, rateVars, simVars, frame, tz, urlVars, storeVars>>

\* aggregateByTimeFrame(data, 'all')
AggAll ==
    /\ agg.pc = "run"
    /\ Len(data) > 0
    /\ frame = "all"
    /\ agg' = [agg EXCEPT !.pc = "done", !.buckets = <<aggregateAll(data)>>]
    /\ UNCHANGED <<ratePeriods, data, rateVars, simVars, frame, tz, urlVars, storeVars>>

\* one iteration of groupBy's loop
AggGroup ==
    /\ agg.pc = "run"
    /\ frame # "all"
    /\ agg.idx <= Len(data)
    /\ agg' = [agg EXCEPT
           !.idx = @ + 1,
           !.groups = GroupAdd(@, GroupKey(frame, data[agg.idx]), data[agg.idx])]
    /\ UNCHANGED <<ratePeriods, data, rateVars, simVars, frame, tz, urlVars, storeVars>>

\* Array.from(grouped.entries()).map(...).sort(...)
AggEmit ==
    /\ agg.pc = "run"
    /\ frame # "all"
    /\ Len(data) > 0
    /\ agg.idx = Len(data) + 1
    /\ agg' = [agg EXCEPT
           !.pc = "done",
           !.buckets = SortByPeriod(
               [g \in 1..Len(agg.groups) |->
                   createAggregatedData(
                       PeriodLabel(frame, agg.groups[g].key, tz),
                       agg.groups[g].points)])]
    /\ UNCHANGED <<ratePeriods, data, rateVars, simVars, frame, tz, urlVars, storeVars>>

\* starts of the half-hour readings a series is made of:
\* Mon 2024-01-01 00:00, Sun 2024-01-07 23:30, Mon 2024-01-08 00:00,
\* 2024-01-31 23:30, 2024-02-01 00:00, 2024-04-10 12:00, 2024-12-31 23:30,
\* 2025-01-01 00:00
ReadingStarts ==
    {0, 6 * 1440 + 1410, 7 * 1440, 30 * 1440 + 1410, 31 * 1440,
     100 * 1440 + 720, 365 * 1440 + 1410, 366 * 1440}

\* the readings of S in ascending order of start, as the parser leaves them
RECURSIVE Ascending(_, _)
Ascending(S, c) ==
    IF S = {} THEN <<>>
    ELSE LET first == Minimum(S)
         IN  <<Point(c[first], first, first + 30)>> \o Ascending(S \ {first}, c)

\* consumption of a reading
ReadingValues == {50, 400}

AggSeries ==
    UNION {{Ascending(S, c) : c \in [S -> ReadingValues]} :
              S \in {T \in SUBSET ReadingStarts : Cardinality(T) <= MaxPoints}}

TimeFrames == {"day", "week", "month", "year", "all"}

\* local time is UTC or five hours behind it
TimeZones == {0, -300}

InitAgg ==
    /\ ratePeriods = ExampleTariff
    /\ data \in AggSeries
    /\ frame \in TimeFrames
    /\ tz \in (IF frame = "month" THEN TimeZones ELSE {0})
    /\ agg = AggInit
    /\ RateUnused
    /\ SimUnused
    /\ UrlUnused
    /\ StoreUnused

NextAgg == AggEmpty \/ AggAll \/ AggGroup \/ AggEmit

SpecAgg == InitAgg /\ [][NextAgg]_vars

----------------------------------------------------------------------------
(* calculateTotalCost: the reduce, one callback per action *)

CostInit ==
    [idx |-> 1, total |-> 0, pc |-> "run",
     count |-> [i \in 1..Len(ratePeriods) |-> 0]]

InitRate ==
    /\ ratePeriods \in RateTariffs
    /\ data \in RateSeries
    /\ matchTs = -1
    /\ matchOut = Undefined
    /\ cost = CostInit
    /\ SimUnused
    /\ AggUnused
    /\ UrlUnused
    /\ StoreUnused

\* a call matchRatePeriod(timestamp, ratePeriods) from outside the reduce; the
\* code is synchronous, so no such call happens while a reduce is under way
Match ==
    /\ cost.pc = "run"
    /\ cost.idx = 1
    /\ \E ts \in MatchTimestamps :
          /\ matchTs' = ts
          /\ matchOut' = matchRatePeriod(ts, ratePeriods)
    /\ UNCHANGED <<ratePeriods, data, cost>>
    /\ UNCHANGED <<simVars, aggVars, urlVars, storeVars>>

\* index in ratePeriods of the period p (the periods of a list have
\* distinct ids)
IndexOf(p, periods) == CHOOSE i \in 1..Len(periods) : periods[i].id = p.id

\* one callback of calculateTotalCost's reduce
CostStep ==
    /\ cost.pc = "run"
    /\ cost.idx <= Len(data)
    /\ LET point == data[cost.idx]
           ratePeriod == matchRatePeriod(point.start, ratePeriods)
       IN  IF ratePeriod = Undefined
           THEN \* reading ratePerKwh of undefined
                cost' = [cost EXCEPT !.pc = "TypeError"]
           ELSE cost' = [cost EXCEPT
                    !.idx = @ + 1,
                    !.total = @ + point.consumption * ratePeriod.ratePerKwh,
                    !.count[IndexOf(ratePeriod, ratePeriods)] = @ + 1]
    /\ matchTs' = data[cost.idx].start
    /\ matchOut' = matchRatePeriod(data[cost.idx].start, ratePeriods)
    /\ UNCHANGED <<ratePeriods, data>>
    /\ UNCHANGED <<simVars, aggVars, urlVars, storeVars>>

\* the reduce returns its accumulator
CostReturn ==
    /\ cost.pc = "run"
    /\ cost.idx = Len(data) + 1
    /\ cost' = [cost EXCEPT !.pc = "done"]
    /\ UNCHANGED <<ratePeriods, data, matchTs, matchOut>>
    /\ UNCHANGED <<simVars, aggVars, urlVars, storeVars>>

NextRate == Match \/ CostStep \/ CostReturn

SpecRate == InitRate /\ [][NextRate]_vars

----------------------------------------------------------------------------
(* The tariff presets (getTariffPresets); their rates in 0.001 GBP per kWh *)

TariffPresets ==
    { [id |-> "octopus-intelligent-go", ratePeriods |->
          << Period("cheap", HHmm(23, 30), HHmm(5, 30), 70),
             Period("standard", HHmm(5, 30), HHmm(23, 30), 270) >>],
      [id |-> "octopus-flux", ratePeriods |->
          << Period("cheap", HHmm(2, 0), HHmm(5, 0), 167),
             Period("day", HHmm(5, 0), HHmm(16, 0), 280),
             Period("peak", HHmm(16, 0), HHmm(19, 0), 390),
             Period("evening", HHmm(19, 0), HHmm(2, 0), 280) >>],
      [id |-> "eon-solar-max", ratePeriods |->
          << Period("cheap", HHmm(0, 0), HHmm(7, 0), 67),
             Period("standard", HHmm(7, 0), HHmm(0, 0), 282) >>],
      [id |-> "edf-empower", ratePeriods |->
          << Period("cheap", HHmm(1, 0), HHmm(4, 0), 177),
             Period("standard", HHmm(4, 0), HHmm(1, 0), 277) >>],
      [id |-> "british-gas-charge-power", ratePeriods |->
          << Period("cheap", HHmm(0, 0), HHmm(5, 0), 139),
             Period("standard", HHmm(5, 0), HHmm(0, 0), 277) >>],
      [id |-> "british-gas-ev-power", ratePeriods |->
          << Period("cheap", HHmm(12, 0), HHmm(5, 0), 90),
             Period("standard", HHmm(5, 0), HHmm(12, 0), 277) >>],
      [id |-> "scottish-power-ev-saver", ratePeriods |->
          << Period("cheap", HHmm(0, 0), HHmm(5, 0), 72),
             Period("standard", HHmm(5, 0), HHmm(0, 0), 277) >>],
      [id |-> "good-energy-solar", ratePeriods |->
          << Period("standard", HHmm(0, 0), HHmm(0, 0), 277) >>] }

\* getTariffById(id)
getTariffById(id) == CHOOSE tariff \in TariffPresets : tariff.id = id

InitPreset ==
    /\ ratePeriods \in {tariff.ratePeriods : tariff \in TariffPresets}
    /\ data = <<>>
    /\ matchTs = -1
    /\ matchOut = Undefined
    /\ cost = [pc |-> "none"]
    /\ SimUnused
    /\ AggUnused
    /\ UrlUnused
    /\ StoreUnused

\* the calls matchRatePeriod(timestamp, ratePeriods) on a preset's periods,
\* one for each minute of a day in turn
MatchPreset ==
    /\ matchTs < MinutesPerDay - 1
    /\ matchTs' = matchTs + 1
    /\ matchOut' = matchRatePeriod(matchTs + 1, ratePeriods)
    /\ UNCHANGED <<ratePeriods, data, cost>>
    /\ UNCHANGED <<simVars, aggVars, urlVars, storeVars>>

NextPreset == MatchPreset

SpecPreset == InitPreset /\ [][NextPreset]_vars

----------------------------------------------------------------------------
(* Share links: encodeStateToUrl and decodeStateFromUrl                    *)
(*                                                                         *)
(* The URL is modelled as its URLSearchParams: a function from keys to     *)
(* values.  A number is written by toString as its decimal digits (in the  *)
(* units of the model) and read back by parseFloat / parseInt; names,      *)
(* colours and the orientation are strings; a date is its timestamp.  An   *)
(* optional object is a sequence of length 0 (undefined) or 1.  The code   *)
(* only tests what searchParams.get returns for truthiness, so a missing   *)
(* key reads as the empty string; the date strings shared are never empty. *)

Some(x) == <<x>>

\* params.set(key, value)
Put(params, key, value) ==
    [k \in DOMAIN params \cup {key} |-> IF k = key THEN value ELSE params[k]]

\* if (present) params.set(key, value)
PutIf(present, params, key, value) ==
    IF present THEN Put(params, key, value) ELSE params

\* searchParams.get(key); null is the empty value of the key's kind:
\* "" for text, << >> for digits
Get(params, key, null) == IF key \in DOMAIN params THEN params[key] ELSE null

\* parseFloat / parseInt of a string of decimal digits
RECURSIVE ParseFloat(_)
ParseFloat(s) ==
    IF Len(s) = 1 THEN s[1] - Digit(0)
    ELSE 10 * ParseFloat(SubSeq(s, 1, Len(s) - 1)) + (s[Len(s)] - Digit(0))

\* parseFloat(searchParams.get(key) || fallback), and
\* searchParams.get(key) ? parseFloat(searchParams.get(key)) : fallback
ParseOr(params, key, fallback) ==
    IF Get(params, key, <<>>) # <<>> THEN ParseFloat(params[key]) ELSE fallback

\* the key `r${i}_name` and its like
RateKey(i, field) == "r" \o ToString(i) \o "_" \o field

\* state.ratePeriods.forEach((rate, i) => ...), from index i (1-based) on
RECURSIVE EncodeRatePeriods(_, _, _)
EncodeRatePeriods(params, periods, i) ==
    IF i > Len(periods) THEN params
    ELSE EncodeRatePeriods(
             PutIf(periods[i].color # "",
                   Put(Put(Put(Put(params,
                                   RateKey(i - 1, "name"), periods[i].name),
                               RateKey(i - 1, "start"), periods[i].startTime),
                           RateKey(i - 1, "end"), periods[i].endTime),
                       RateKey(i - 1, "rate"), Decimal(periods[i].ratePerKwh)),
                   RateKey(i - 1, "color"), periods[i].color),
             periods, i + 1)

\* the block "Encode rate periods"
EncodeRates(params, option) ==
    IF option = <<>> THEN params
    ELSE Put(EncodeRatePeriods(params, option[1], 1),
             "rate_count", Decimal(Len(option[1])))

\* the block "Encode battery config"
EncodeBattery(params, option) ==
    IF option = <<>> THEN params
    ELSE PutIf(option[1].name # "",
               PutIf(option[1].cost # Absent /\ option[1].cost # 0,
                     Put(Put(Put(Put(params,
                                     "b_cap", Decimal(option[1].capacity)),
                                 "b_charge", Decimal(option[1].chargeRate)),
                             "b_discharge", Decimal(option[1].dischargeRate)),
                         "b_eff", Decimal(option[1].roundtripEfficiency)),
                     "b_cost", Decimal(Max2(option[1].cost, 0))),
               "b_name", option[1].name)

\* the block "Encode solar config"
EncodeSolar(params, option) ==
    IF option = <<>> THEN params
    ELSE PutIf(option[1].name # "",
               PutIf(option[1].exportRate # Absent /\ option[1].exportRate # 0,
                     PutIf(option[1].cost # Absent /\ option[1].cost # 0,
                           Put(Put(Put(Put(Put(params,
                                               "s_cap", Decimal(option[1].capacity)),
                                           "s_orient", option[1].orientation),
                                       "s_tilt", Decimal(option[1].tilt)),
                                   "s_peff", Decimal(option[1].panelEfficiency)),
                               "s_seff", Decimal(option[1].systemEfficiency)),
                           "s_cost", Decimal(Max2(option[1].cost, 0))),
                     "s_export", Decimal(Max2(option[1].exportRate, 0))),
               "s_name", option[1].name)

\* the block "Encode consumption summary"
EncodeSummary(params, option) ==
    IF option = <<>> THEN params
    ELSE Put(Put(Put(Put(params,
                         "c_avg", Decimal(option[1].avgDailyConsumption)),
                     "c_days", Decimal(option[1].totalDays)),
                 "c_start", option[1].dateStart),
             "c_end", option[1].dateEnd)

\* starts from new URLSearchParams(), which has no key
encodeStateToUrl(state) ==
    EncodeSummary(
        EncodeSolar(
            EncodeBattery(
                EncodeRates([k \in {} |-> ""], state.ratePeriods),
                state.batteryConfig),
            state.solarConfig),
        state.consumptionSummary)

\* the rate period read at index i (0-based), with the id the decoder gives
DecodedPeriod(params, i) ==
    [id |-> "rate-" \o ToString(i),
     name |-> params[RateKey(i, "name")],
     startTime |-> params[RateKey(i, "start")],
     endTime |-> params[RateKey(i, "end")],
     ratePerKwh |-> ParseFloat(params[RateKey(i, "rate")]),
     color |-> Get(params, RateKey(i, "color"), "")]

\* for (let i = 0; i < rateCount; i++)
\*     if (name && startTime && endTime && ratePerKwh) ratePeriods.push(...)
RECURSIVE DecodeRatePeriods(_, _, _)
DecodeRatePeriods(params, i, rateCount) ==
    IF i >= rateCount THEN <<>>
    ELSE (IF /\ Get(params, RateKey(i, "name"), "") # ""
             /\ Get(params, RateKey(i, "start"), <<>>) # <<>>
             /\ Get(params, RateKey(i, "end"), <<>>) # <<>>
             /\ Get(params, RateKey(i, "rate"), <<>>) # <<>>
          THEN <<DecodedPeriod(params, i)>>
          ELSE <<>>)
         \o DecodeRatePeriods(params, i + 1, rateCount)

\* the block "Decode rate periods": state.ratePeriods is set when one was read
DecodeRates(params) ==
    IF DecodeRatePeriods(params, 0, ParseOr(params, "rate_count", 0)) = <<>>
    THEN <<>>
    ELSE Some(DecodeRatePeriods(params, 0, ParseOr(params, "rate_count", 0)))

\* the block "Decode battery config"
DecodeBattery(params) ==
    IF Get(params, "b_cap", <<>>) = <<>> THEN <<>>
    ELSE Some([name |-> Get(params, "b_name", ""),
               capacity |-> ParseFloat(params["b_cap"]),
               chargeRate |-> ParseOr(params, "b_charge", 500),
               dischargeRate |-> ParseOr(params, "b_discharge", 500),
               roundtripEfficiency |-> ParseOr(params, "b_eff", 90),
               cost |-> ParseOr(params, "b_cost", Absent),
               minimumSoc |-> 10,
               maximumSoc |-> 100])

\* the block "Decode solar config"
DecodeSolar(params) ==
    IF Get(params, "s_cap", <<>>) = <<>> THEN <<>>
    ELSE Some([name |-> Get(params, "s_name", ""),
               capacity |-> ParseFloat(params["s_cap"]),
               orientation |-> IF Get(params, "s_orient", "") # ""
                               THEN params["s_orient"] ELSE "south",
               tilt |-> ParseOr(params, "s_tilt", 35),
               panelEfficiency |-> ParseOr(params, "s_peff", 20),
               systemEfficiency |-> ParseOr(params, "s_seff", 85),
               cost |-> ParseOr(params, "s_cost", Absent),
               exportRate |-> ParseOr(params, "s_export", 15),
               predictedAnnualOutput |-> Absent])

\* the block "Decode consumption summary"; clock is new Date()
DecodeSummary(params, clock) ==
    IF Get(params, "c_avg", <<>>) = <<>> THEN <<>>
    ELSE Some([avgDailyConsumption |-> ParseFloat(params["c_avg"]),
               totalDays |-> ParseOr(params, "c_days", 30),
               dateStart |-> IF "c_start" \in DOMAIN params THEN params["c_start"] ELSE clock,
               dateEnd |-> IF "c_end" \in DOMAIN params THEN params["c_end"] ELSE clock])

decodeStateFromUrl(params, clock) ==
    [ratePeriods |-> DecodeRates(params),
     batteryConfig |-> DecodeBattery(params),
     solarConfig |-> DecodeSolar(params),
     consumptionSummary |-> DecodeSummary(params, clock)]

\* a rate period as the tariff editor keeps it; color "" is undefined
NamedPeriod(id, name, s, e, rate, color) ==
    [id |-> id, name |-> name, startTime |-> s, endTime |-> e,
     ratePerKwh |-> rate, color |-> color]

\* a battery or solar configuration with the name the configurator gives it
Named(config, name) == config @@ [name |-> name]

\* a solar configuration with its export rate, pence per kWh
Exporting(config, rate) == config @@ [exportRate |-> rate]

\* the tariffs shared: none, an empty list, two coloured windows, one flat
\* rate; the rates of named periods are in 0.0001 GBP per kWh
UrlTariffs ==
    { <<>>,
      Some(<<>>),
      Some(<< NamedPeriod("cheap", "Off-Peak", HHmm(23, 30), HHmm(5, 30), 700, "#10b981"),
              NamedPeriod("standard", "Peak", HHmm(5, 30), HHmm(23, 30), 3000, "#ef4444") >>),
      Some(<< NamedPeriod("flat", "Flat", HHmm(0, 0), HHmm(0, 0), 2500, "") >>) }

\* the batteries shared: none, the preset, one without price and limits,
\* one with its own rates, efficiency and price
UrlBatteries ==
    { <<>>,
      Some(Named(DefaultBattery, "Medium (10 kWh)")),
      Some(Named(Battery(200, 300, 300, 90, Absent, Absent, Absent), "")),
      Some(Named(Battery(500, 300, 700, 85, 35000000, 10, 100), "Garage")) }

\* the solar systems shared: none, the default without export rate, one with
\* the installer's predicted annual output and an export rate of 0.25
UrlSolars ==
    { <<>>,
      Some(Exporting(Named(DefaultSolar, "Roof"), Absent)),
      Some(Exporting(Named(ScaledSolar, ""), 25)) }

\* the consumption summaries shared: none, thirty days at 12 kWh a day
UrlSummaries ==
    { <<>>,
      Some([avgDailyConsumption |-> 1200, totalDays |-> 30,
            dateStart |-> 0, dateEnd |-> 30 * 1440]) }

UrlStates ==
    [ratePeriods : UrlTariffs, batteryConfig : UrlBatteries,
     solarConfig : UrlSolars, consumptionSummary : UrlSummaries]

InitUrl ==
    /\ url \in [pc : {"start"}, state : UrlStates,
                params : {[k \in {} |-> ""]}, decoded : {<<>>}]
    /\ ratePeriods = EmptyTariff
    /\ data = <<>>
    /\ RateUnused
    /\ SimUnused
    /\ AggUnused
    /\ StoreUnused

\* the share button: encodeStateToUrl on the state of the stores
Encode ==
    /\ url.pc = "start"
    /\ url' = [url EXCEPT !.pc = "encoded", !.params = encodeStateToUrl(url.state)]
    /\ UNCHANGED <<ratePeriods, data, rateVars, simVars, aggVars, storeVars>>

\* opening the link: decodeStateFromUrl on the parameters of the URL
Decode ==
    /\ url.pc = "encoded"
    /\ url' = [url EXCEPT !.pc = "decoded",
                          !.decoded = Some(decodeStateFromUrl(url.params, now))]
    /\ UNCHANGED <<ratePeriods, data, rateVars, simVars, aggVars, storeVars>>

NextUrl == Encode \/ Decode

SpecUrl == InitUrl /\ [][NextUrl]_vars

----------------------------------------------------------------------------
(* The store (useDataStore) and the handlers that change its rate periods  *)
(*                                                                         *)
(* store holds the fields of the store that the consumption data, the      *)
(* tariff and the two system configurations live in; null is the empty     *)
(* sequence, a value v that may be null is <<v>>.                           *)

\* most rate periods the tariff editor is followed to
MaxPeriods == 3

\* const defaultRatePeriods
defaultRatePeriods ==
    << NamedPeriod("cheap", "Cheap Rate", HHmm(23, 30), HHmm(5, 30), 700, "#10b981"),
       NamedPeriod("standard", "Standard Rate", HHmm(5, 30), HHmm(23, 30), 3051, "#3b82f6") >>

\* const defaultBatteryConfig
defaultBatteryConfig == Battery(1350, 500, 500, 90, Absent, 10, 100)

\* the initial state of the store
StoreInit ==
    [pc |-> "store",
     consumptionData |-> <<>>,
     dataLoaded |-> FALSE,
     fileName |-> <<>>,
     dateRange |-> <<>>,
     ratePeriods |-> defaultRatePeriods,
     batteryConfig |-> Some(defaultBatteryConfig),
     solarConfig |-> <<>>,
     customDateRange |-> <<>>]

setConsumptionData(st, points, fileName) ==
    [st EXCEPT
        !.consumptionData = points,
        !.dataLoaded = TRUE,
        !.fileName = Some(fileName),
        !.dateRange = IF Len(points) > 0
                      THEN Some([start |-> points[1].start, end |-> points[Len(points)].end])
                      ELSE <<>>]

\* faulty variant of clearConsumptionData: the whole store is reset
ClearWholeStore(st) ==
    [pc |-> "store",
     consumptionData |-> <<>>,
     dataLoaded |-> FALSE,
     fileName |-> <<>>,
     dateRange |-> <<>>,
     ratePeriods |-> defaultRatePeriods,
     batteryConfig |-> Some(defaultBatteryConfig),
     solarConfig |-> <<>>,
     customDateRange |-> <<>>]

clearConsumptionData(st) ==
    [st EXCEPT
        !.consumptionData = <<>>,
        !.dataLoaded = FALSE,
        !.fileName = <<>>,
        !.dateRange = <<>>,
        !.customDateRange = <<>>]

addRatePeriod(st, period) == [st EXCEPT !.ratePeriods = Append(@, period)]

\* { ...period, ...updates }: the form holds every field but the id
updateRatePeriod(st, id, updates) ==
    [st EXCEPT !.ratePeriods =
        [i \in 1..Len(@) |->
            IF @[i].id = id THEN [updates EXCEPT !.id = id] ELSE @[i]]]

deleteRatePeriod(st, id) ==
    [st EXCEPT !.ratePeriods = SelectSeq(@, LAMBDA period : period.id # id)]

setRatePeriods(st, periods) == [st EXCEPT !.ratePeriods = periods]

\* setBatteryConfig(config) and clearBatteryConfig(): config may be null
setBatteryConfig(st, config) == [st EXCEPT !.batteryConfig = config]

\* setSolarConfig(config) and clearSolarConfig(): config may be null
setSolarConfig(st, config) == [st EXCEPT !.solarConfig = config]

setCustomDateRange(st, range) == [st EXCEPT !.customDateRange = range]

\* applyUrlState(urlState, {setRatePeriods, setBatteryConfig, setSolarConfig})
applyUrlState(st, urlState) ==
    setSolarConfig(
        setBatteryConfig(
            IF urlState.ratePeriods # <<>>
            THEN setRatePeriods(st, urlState.ratePeriods[1]) ELSE st,
            IF urlState.batteryConfig # <<>> THEN urlState.batteryConfig ELSE st.batteryConfig),
        IF urlState.solarConfig # <<>> THEN urlState.solarConfig ELSE st.solarConfig)

\* the period handleAddNew makes when Date.now() is clock milliseconds past
\* 1,704,067,200,000
NewPeriod(clock) ==
    NamedPeriod("rate-170406720000" \o ToString(clock), "New Rate",
                HHmm(0, 0), HHmm(0, 0), 1500, "#8b5cf6")

\* what the edit form is saved with
EditForms ==
    { NamedPeriod("", "Night", HHmm(0, 30), HHmm(4, 30), 750, "#10b981") }

\* the files that are uploaded: an empty one, two half hours, one hour
Uploads == { <<>>, Uniform(0, 30, 100, 2), Uniform(300, 60, 100, 1) }

\* the links that are opened: without parameters, with an empty tariff and a
\* battery, with a tariff only, with a tariff and both systems
OpenedLinks ==
    { [ratePeriods |-> <<>>, batteryConfig |-> <<>>,
       solarConfig |-> <<>>, consumptionSummary |-> <<>>],
      [ratePeriods |-> Some(<<>>),
       batteryConfig |-> Some(Named(Battery(500, 300, 700, 85, 35000000, 10, 100), "Garage")),
       solarConfig |-> <<>>, consumptionSummary |-> <<>>],
      [ratePeriods |-> Some(<< NamedPeriod("flat", "Flat", HHmm(0, 0), HHmm(0, 0), 2500, "") >>),
       batteryConfig |-> <<>>, solarConfig |-> <<>>, consumptionSummary |-> <<>>],
      [ratePeriods |-> Some(defaultRatePeriods),
       batteryConfig |-> Some(Named(defaultBatteryConfig, "")),
       solarConfig |-> Some(Exporting(Named(ScaledSolar, "Roof"), 1500)),
       consumptionSummary |-> Some([avgDailyConsumption |-> 1200, totalDays |-> 30,
                                    dateStart |-> 0, dateEnd |-> 30 * 1440])] }

InitStore ==
    /\ store = StoreInit
    /\ ratePeriods = EmptyTariff
    /\ data = <<>>
    /\ RateUnused
    /\ SimUnused
    /\ AggUnused
    /\ UrlUnused

\* CsvUploader: a parsed file, an example profile or a manual entry is stored
Upload ==
    /\ \E points \in Uploads, fileName \in {"usage.csv"} :
          store' = setConsumptionData(store, points, fileName)
    /\ UNCHANGED <<ratePeriods, data, rateVars, simVars, aggVars, urlVars>>

\* Header: the button that clears the data
ClearData ==
    /\ store.dataLoaded
    /\ store' = clearConsumptionData(store)
    /\ UNCHANGED <<ratePeriods, data, rateVars, simVars, aggVars, urlVars>>

\* RateConfiguration.handleAddNew
HandleAddNew ==
    /\ Len(store.ratePeriods) < MaxPeriods
    /\ \E clock \in now..MaxClock :
          /\ now' = clock
          /\ store' = addRatePeriod(store, NewPeriod(clock))
    /\ UNCHANGED <<ratePeriods, data, sim, batteryConfig, solarConfig, run, result, prev>>
    /\ UNCHANGED <<rateVars, aggVars, urlVars>>

\* RateConfiguration.saveEdit on the period the form was opened for
SaveEdit ==
    /\ \E i \in 1..Len(store.ratePeriods), form \in EditForms :
          store' = updateRatePeriod(store, store.ratePeriods[i].id, form)
    /\ UNCHANGED <<ratePeriods, data, rateVars, simVars, aggVars, urlVars>>

\* RateConfiguration: the delete button, rendered while ratePeriods.length > 1
DeletePeriod ==
    /\ Len(store.ratePeriods) > 1
    /\ \E i \in 1..Len(store.ratePeriods) :
          store' = deleteRatePeriod(store, store.ratePeriods[i].id)
    /\ UNCHANGED <<ratePeriods, data, rateVars, simVars, aggVars, urlVars>>

\* App: on mount, the configuration of the URL is decoded and applied
LoadUrl ==
    /\ \E shared \in OpenedLinks :
          store' = applyUrlState(store, decodeStateFromUrl(encodeStateToUrl(shared), now))
    /\ UNCHANGED <<ratePeriods, data, rateVars, simVars, aggVars, urlVars>>

\* the battery configurator selects a battery or removes it
SelectBattery ==
    /\ \E config \in {<<>>, Some(defaultBatteryConfig)} :
          store' = setBatteryConfig(store, config)
    /\ UNCHANGED <<ratePeriods, data, rateVars, simVars, aggVars, urlVars>>

\* the solar configurator selects a solar system or removes it
SelectSolar ==
    /\ \E config \in {<<>>, Some(DefaultSolar)} :
          store' = setSolarConfig(store, config)
    /\ UNCHANGED <<ratePeriods, data, rateVars, simVars, aggVars, urlVars>>

\* the date filter is set to the range of the data or removed
SelectDateRange ==
    /\ \E range \in {<<>>, store.dateRange} :
          store' = setCustomDateRange(store, range)
    /\ UNCHANGED <<ratePeriods, data, rateVars, simVars, aggVars, urlVars>>

NextStore ==
    \/ Upload \/ ClearData
    \/ HandleAddNew \/ SaveEdit \/ DeletePeriod
    \/ LoadUrl
    \/ SelectBattery \/ SelectSolar \/ SelectDateRange

SpecStore == InitStore /\ [][NextStore]_vars

----------------------------------------------------------------------------
(* Properties of rate matching and cost calculation (SpecRate) *)

\* minutes after midnight a string "HH:mm" stands for
MinutesOf(str) ==
    ((str[1] - 48) * 10 + (str[2] - 48)) * 60 + (str[4] - 48) * 10 + (str[5] - 48)

\* the window of period p contains the time of day of ts, on the clock
WindowContains(ts, p) ==
    LET t == ts % MinutesPerDay
        s == MinutesOf(p.startTime)
        e == MinutesOf(p.endTime)
    IN  IF s > e THEN t >= s \/ t < e ELSE s <= t /\ t < e

SomeWindowContains(ts, periods) ==
    \E i \in 1..Len(periods) : WindowContains(ts, periods[i])

IsPeriodOf(p, periods) == \E i \in 1..Len(periods) : periods[i] = p

\* C3 as stated: for any (non-empty) rate-period list and any timestamp,
\* matchRatePeriod returns one period of the list and its window contains the
\* timestamp's time of day.
C3_AnyListContained ==
    (matchTs # -1 /\ Len(ratePeriods) > 0) =>
        /\ IsPeriodOf(matchOut, ratePeriods)
        /\ WindowContains(matchTs, matchOut)

\* C3 amended: whenever some period's window contains the timestamp's time of
\* day, matchRatePeriod returns one period of the list and that period's
\* window contains the time of day (start <= t < end, or t >= start \/ t < end
\* for a wrapping window).
C3_ContainedWhenCovered ==
    (matchTs # -1 /\ SomeWindowContains(matchTs, ratePeriods)) =>
        /\ IsPeriodOf(matchOut, ratePeriods)
        /\ WindowContains(matchTs, matchOut)

\* a timestamp after midnight matched to the wrapping 23:30-05:30 window
C3_Witness ==
    /\ matchTs # -1
    /\ matchTs % MinutesPerDay < 330
    /\ ratePeriods = ExampleTariff
    /\ matchOut = ExampleTariff[1]

\* C4: matchRatePeriod returns the first period in list order whose window
\* contains the time of day, ratePeriods[0] when none does (undefined for an
\* empty list), and every call returns.
C4_FirstMatchOrFallback ==
    matchTs # -1 =>
        /\ \A i \in 1..Len(ratePeriods) :
              (/\ WindowContains(matchTs, ratePeriods[i])
               /\ \A j \in 1..(i - 1) : ~WindowContains(matchTs, ratePeriods[j]))
                  => matchOut = ratePeriods[i]
        /\ (~SomeWindowContains(matchTs, ratePeriods) /\ Len(ratePeriods) > 0)
              => matchOut = ratePeriods[1]
        /\ Len(ratePeriods) = 0 => matchOut = Undefined

\* a time inside both windows of the overlapping list goes to the first
C4_Witness ==
    /\ matchTs # -1
    /\ ratePeriods = OverlapTariff
    /\ WindowContains(matchTs, OverlapTariff[1])
    /\ WindowContains(matchTs, OverlapTariff[2])
    /\ matchOut = OverlapTariff[1]

IsExampleRun ==
    /\ cost.pc = "done"
    /\ ratePeriods = ExampleTariff
    /\ \E s \in ExampleDayStarts : data = ExampleDay(s)

\* C8 as stated: on the example day 11 intervals are matched to the cheap
\* period and 37 to the standard period; the total is
\* 11*0.5*0.07 + 37*0.5*0.30.
C8_ElevenCheap ==
    IsExampleRun =>
        /\ cost.count[1] = 11
        /\ cost.count[2] = 37
        /\ cost.total = 11 * 50 * 7 + 37 * 50 * 30

\* C8 amended: on the example day 12 intervals are matched to the cheap
\* period (23:30 and 00:00 .. 05:00) and 36 to the standard period; the total
\* is 12*0.5*0.07 + 36*0.5*0.30.
C8_TwelveCheap ==
    IsExampleRun =>
        /\ cost.count[1] = 12
        /\ cost.count[2] = 36
        /\ cost.total = 12 * 50 * 7 + 36 * 50 * 30

C8_Witness ==
    /\ IsExampleRun
    /\ data = ExampleDay(0)
    /\ cost.idx = 49

----------------------------------------------------------------------------
(* Properties of the simulators (SpecSim) *)

\* the value of an optional field, its default d when it is not specified
SpecifiedOr(x, d) == IF x = Absent THEN d ELSE x

\* minimumSoc % and maximumSoc % of capacity
FloorOf(cfg) == (SpecifiedOr(cfg.minimumSoc, 10) * cfg.capacity) \div 100
CeilingOf(cfg) == (SpecifiedOr(cfg.maximumSoc, 100) * cfg.capacity) \div 100

HasBattery == sim \in {"battery", "combined"}

\* C1: every BatteryState emitted by simulateBattery and by
\* simulateSolarWithBattery has minSoc <= stateOfCharge <= maxSoc, with
\* minSoc = minimumSoc % and maxSoc = maximumSoc % of capacity.
C1_SocWithinBounds ==
    HasBattery =>
        \A i \in 1..Len(run.states) :
            /\ FloorOf(batteryConfig) <= run.states[i].stateOfCharge
            /\ run.states[i].stateOfCharge <= CeilingOf(batteryConfig)

\* a battery run that has charged the battery and then discharged it down to
\* its floor
C1_Witness ==
    /\ sim = "battery"
    /\ \E i, j \in 1..Len(run.states) :
          /\ i < j
          /\ run.states[i].action = "charging"
          /\ run.states[j].action = "discharging"
          /\ run.states[j].stateOfCharge = FloorOf(batteryConfig)

\* C2: in simulateBattery the energy discharged in an interval never exceeds
\* min(dischargeRate * interval duration, SoC before the interval - minSoc).
\* (energy * 60 <= power * minutes)
C2_DischargeWithinLimits ==
    sim = "battery" =>
        \A i \in 1..Len(run.hist) :
            run.hist[i].discharged > 0 =>
                /\ run.hist[i].discharged * 60
                     <= batteryConfig.dischargeRate * (run.hist[i].end - run.hist[i].start)
                /\ run.hist[i].discharged
                     <= run.hist[i].priorSoc - FloorOf(batteryConfig)

\* C5: running a simulator twice on identical inputs yields identical
\* outputs.
C5_SameInputsSameOutputs ==
    (run.pc = "done" /\ prev # None) => result = prev

\* C9: every interval is simulated with a duration of end - start in hours
\* (0.5 for 30 minutes, 1 for 60 minutes).
C9_DurationIsEndMinusStart ==
    sim \in {"battery", "solar", "combined"} =>
        \A i \in 1..Len(run.hist) :
            run.hist[i].intervalHours2 * 30 = run.hist[i].end - run.hist[i].start

\* the doubles of the analysis a simulator returned
ResultDoubles ==
    {result.dailyAverageSavings, result.annualEstimate, result.paybackPeriod}
      \cup (IF sim = "battery"
            THEN {result.selfConsumptionRate, result.peakShavingBenefit}
            ELSE IF sim = "solar" THEN {result.selfConsumptionRate}
            ELSE {result.selfSufficiencyRate})

\* C10: no numeric field of the result of simulateBattery, simulateSolar or
\* simulateSolarWithBattery is NaN, for any input including an empty series
\* and a series of zero total consumption.
C10_NoNaN ==
    (sim \in {"battery", "solar", "combined"} /\ result # None) =>
        \A x \in ResultDoubles : x.tag # "NaN"

----------------------------------------------------------------------------
(* Properties of the analysis simulateBattery returns (SpecSim) *)

BatteryReturned == sim = "battery" /\ result # None

\* (totalSavings / (number of intervals / 48)) * 365, as a double
AnnualOf(totalSavings, intervals) ==
    IF intervals = 0
    THEN (IF totalSavings = 0 THEN FNaN ELSE IF totalSavings > 0 THEN FInf ELSE FNegInf)
    ELSE FNum(((totalSavings * 48) \div intervals) * 365)

\* batteryConfig.cost when specified and capacity * 500 otherwise
PriceOf(cfg) == IF cfg.cost # Absent THEN cfg.cost ELSE cfg.capacity * 50000

\* C11: in simulateBattery annualEstimate = (totalSavings / (intervals / 48))
\* * 365, paybackPeriod = cost / annualEstimate with cost the configured cost
\* or capacity * 500, and paybackPeriod is Infinity whenever
\* annualEstimate <= 0.
C11_AnnualEstimateAndPayback ==
    BatteryReturned =>
        LET annual == AnnualOf(result.totalSavings, Len(data))
        IN  /\ result.annualEstimate = annual
            /\ (annual.tag = "num" /\ annual.v > 0) =>
                   result.paybackPeriod = FNum(PriceOf(batteryConfig) \div annual.v)
            /\ (annual.tag = "num" /\ annual.v <= 0) => result.paybackPeriod = FInf

\* a battery with a configured cost has earned savings and pays back in a
\* finite number of years
C11_Witness ==
    /\ BatteryReturned
    /\ batteryConfig.cost # Absent
    /\ result.annualEstimate.tag = "num"
    /\ result.annualEstimate.v > 0
    /\ result.paybackPeriod.tag = "num"
    /\ result.paybackPeriod.v > 0

----------------------------------------------------------------------------
(* Properties of the strategy of simulateBattery (SpecSim) *)

\* the decision the strategy prescribes for interval i of a battery run whose
\* rate caps are taken over the given number of minutes
FollowsStrategy(i, minutes) ==
    LET h == run.hist[i]
        point == data[i]
        matched == matchRatePeriod(point.start, ratePeriods)
        soc == h.priorSoc
        lo == MinSoc(batteryConfig)
        hi == MaxSoc(batteryConfig)
        charges == /\ matched.id = CheapPeriod(ratePeriods).id
                   /\ soc < hi
                   /\ point.consumption > 0
        discharges == /\ ~charges
                      /\ matched.ratePerKwh > CheapRate(ratePeriods)
                      /\ soc > lo
                      /\ point.consumption > 0
    IN  /\ run.states[i].action =
               (IF charges THEN "charging"
                ELSE IF discharges THEN "discharging" ELSE "idle")
        /\ h.charged =
               (IF charges
                THEN Min3(hi - soc, (batteryConfig.chargeRate * minutes) \div 60,
                          point.consumption)
                ELSE 0)
        /\ h.discharged =
               (IF discharges
                THEN Min3(soc - lo, (batteryConfig.dischargeRate * minutes) \div 60,
                          point.consumption)
                ELSE 0)
        /\ h.beforeClamp =
               soc + (h.charged * batteryConfig.roundtripEfficiency) \div 100
                   - h.discharged
        /\ ~(h.charged > 0 /\ h.discharged > 0)

\* C12: in simulateBattery each interval charges iff the matched period is the
\* cheapest period, SoC < maxSoc and consumption is positive, by
\* min(maxSoc - SoC, chargeRate * duration, consumption) credited with the
\* roundtrip efficiency; otherwise discharges iff the matched rate exceeds
\* the cheapest rate, SoC > minSoc and consumption is positive, by
\* min(SoC - minSoc, dischargeRate * duration, consumption); otherwise is
\* idle; and never charges and discharges in one interval.  The duration is
\* that of the interval, end - start.
C12_ActionByRateAndSoc ==
    sim = "battery" =>
        \A i \in 1..Len(run.hist) :
            FollowsStrategy(i, run.hist[i].end - run.hist[i].start)

\* the same decisions with the caps taken over the hours the loop computes
\* (intervalHours): the part of C12 that does not depend on the duration
C12_ActionWithLoopDuration ==
    sim = "battery" =>
        \A i \in 1..Len(run.hist) :
            FollowsStrategy(i, run.hist[i].intervalHours2 * 30)

(* Properties of the savings of simulateBattery (SpecSim) *)

\* the lowest rate of the tariff
LowestRate == Minimum({ratePeriods[p].ratePerKwh : p \in 1..Len(ratePeriods)})

\* the rate of the period interval i is matched to
RateOf(i) == matchRatePeriod(data[i].start, ratePeriods).ratePerKwh

\* what the discharge of interval i saves and what its charge costs
DischargeGain(i) == run.hist[i].discharged * (RateOf(i) - LowestRate)
ChargeCost(i) == run.hist[i].charged * RateOf(i)

TotalDischarged ==
    SumOver(1..Len(run.hist), [i \in 1..Len(run.hist) |-> run.hist[i].discharged])

\* C14: simulateBattery's selfConsumptionRate equals 100 * (total energy
\* discharged from the battery over the run) / (total consumption of the
\* series), whatever the interval length.
C14_SelfConsumptionIsDischargedShare ==
    (BatteryReturned /\ SumConsumption(data) > 0) =>
        result.selfConsumptionRate =
            FNum((TotalDischarged * 100) \div SumConsumption(data))

(* Properties of the SoC limits and of the combined strategy (SpecSim) *)

\* C15: the SoC floor and ceiling the simulators use are exactly the
\* configured minimumSoc % and maximumSoc % of capacity for every configured
\* value in 0..100, minimumSoc = 0 included; the defaults 10 % and 100 % apply
\* only to a field that is not specified.  Every stored state of charge is
\* the computed one limited to that floor and ceiling.
C15_LimitsAsConfigured ==
    HasBattery =>
        \A i \in 1..Len(run.states) :
            run.states[i].stateOfCharge =
                Max2(FloorOf(batteryConfig),
                     Min2(CeilingOf(batteryConfig), run.hist[i].beforeClamp))

\* how many of solar charging, discharging and grid charging interval i did
Activities(i) ==
    (IF run.hist[i].charged > 0 THEN 1 ELSE 0)
        + (IF run.hist[i].discharged > 0 THEN 1 ELSE 0)
        + (IF run.hist[i].gridCharged > 0 THEN 1 ELSE 0)

\* C16: in simulateSolarWithBattery the battery is grid-charged in an interval
\* only if the matched period is the cheapest period and the battery neither
\* charged from solar nor discharged in that interval; in every interval it
\* performs at most one of solar charging, discharging and grid charging.
C16_GridChargeOnlyWhenIdleAndCheap ==
    sim = "combined" =>
        \A i \in 1..Len(run.hist) :
            /\ run.hist[i].gridCharged > 0 =>
                   /\ matchRatePeriod(data[i].start, ratePeriods).id
                          = CheapPeriod(ratePeriods).id
                   /\ run.hist[i].charged = 0
                   /\ run.hist[i].discharged = 0
            /\ Activities(i) <= 1

\* a combined run that charged from the grid in one interval, charged from
\* solar in a second one in the cheapest period, and discharged in a third
C16_Witness ==
    /\ sim = "combined"
    /\ \E i, j, k \in 1..Len(run.hist) :
          /\ run.hist[i].gridCharged > 0
          /\ run.hist[j].charged > 0
          /\ matchRatePeriod(data[j].start, ratePeriods).id = CheapPeriod(ratePeriods).id
          /\ run.hist[k].discharged > 0

CombinedReturned == sim = "combined" /\ result # None

\* consumption of interval i met directly by the solar generation
DirectUse(i) ==
    Min2((run.generations[i].generation * run.hist[i].intervalHours2) \div 2,
         data[i].consumption)

\* consumption met without grid import: direct solar use plus battery discharge
MetWithoutGrid ==
    SumOver(1..Len(run.hist),
            [i \in 1..Len(run.hist) |-> DirectUse(i) + run.hist[i].discharged])

\* C17: simulateSolarWithBattery's selfSufficiencyRate equals 100 *
\* (consumption covered by direct solar use plus consumption covered by
\* battery discharge) / total consumption, and never exceeds 100.
C17_SelfSufficiencyIsCoveredShare ==
    (CombinedReturned /\ SumConsumption(data) > 0) =>
        /\ result.selfSufficiencyRate =
               FNum((MetWithoutGrid * 100) \div SumConsumption(data))
        /\ result.selfSufficiencyRate.v <= 100

\* the bound alone: the rate never exceeds 100
C17_AtMostHundred ==
    (CombinedReturned /\ SumConsumption(data) > 0) =>
        result.selfSufficiencyRate.v <= 100

(* Properties of the scaled solar generation (SpecSim) *)

SolarReturned == sim \in {"solar", "combined"} /\ result # None

\* total generation annualised as total / (intervals / 48) * 365
AnnualisedGeneration == ((result.totalGeneration * 48) \div Len(data)) * 365

\* C18: when solarConfig.predictedAnnualOutput is set and the unscaled
\* estimate over the series is non-zero, the total generation of simulateSolar
\* and of simulateSolarWithBattery, annualised as total / (intervals / 48) *
\* 365, equals predictedAnnualOutput; when predictedAnnualOutput is unset or
\* the unscaled estimate is zero, the scaling factor is 1: every generation is
\* the unscaled estimate.  Equality is up to the resolution of the fixed
\* point, one part in a hundred.
C18_AnnualisedGenerationIsPredicted ==
    SolarReturned =>
        IF /\ solarConfig.predictedAnnualOutput # Absent
           /\ EstimatedTotal(data, solarConfig) # 0
        THEN Abs(AnnualisedGeneration - solarConfig.predictedAnnualOutput) * 100
                 <= solarConfig.predictedAnnualOutput
        ELSE \A i \in 1..Len(run.generations) :
                 run.generations[i].generation
                     = estimateGeneration(data[i].start, solarConfig, 1000)

\* a solar run whose generation was scaled, away from the unscaled estimate, to
\* the predicted annual output
C18_Witness ==
    /\ SolarReturned
    /\ sim = "solar"
    /\ solarConfig.predictedAnnualOutput # Absent
    /\ EstimatedTotal(data, solarConfig) # 0
    /\ Len(data) > 1
    /\ result.totalGeneration > 0
    /\ result.totalGeneration # EstimatedTotal(data, solarConfig)

(* Properties of the recorded battery states (SpecSim) *)

\* the sign of powerFlow agrees with the action in state s
SignAgrees(s) ==
    /\ s.powerFlow > 0 <=> s.action = "charging"
    /\ s.powerFlow < 0 <=> s.action = "discharging"
    /\ s.powerFlow = 0 <=> s.action = "idle"

\* C19: in every BatteryState emitted by simulateBattery and by
\* simulateSolarWithBattery, powerFlow > 0 iff the action is 'charging',
\* powerFlow < 0 iff it is 'discharging' and powerFlow = 0 iff it is 'idle'.
C19_PowerFlowSignMatchesAction ==
    HasBattery => \A i \in 1..Len(run.states) : SignAgrees(run.states[i])

\* the same for batteries whose charge and discharge rates are positive
C19_SignMatchesWithPositiveRates ==
    (HasBattery /\ batteryConfig.chargeRate > 0 /\ batteryConfig.dischargeRate > 0)
        => \A i \in 1..Len(run.states) : SignAgrees(run.states[i])

(* Properties of share links (SpecUrl) *)

\* what was shared and what the link gave back
Shared == url.state
Opened == url.decoded[1]

\* two rate periods agree in name, start, end, rate and colour
SamePeriod(a, b) ==
    /\ a.name = b.name
    /\ a.startTime = b.startTime
    /\ a.endTime = b.endTime
    /\ a.ratePerKwh = b.ratePerKwh
    /\ a.color = b.color

\* two batteries agree in every setting a simulation reads
SameBattery(a, b) ==
    /\ a.capacity = b.capacity
    /\ a.chargeRate = b.chargeRate
    /\ a.dischargeRate = b.dischargeRate
    /\ a.roundtripEfficiency = b.roundtripEfficiency
    /\ a.cost = b.cost
    /\ SpecifiedOr(a.minimumSoc, 10) = SpecifiedOr(b.minimumSoc, 10)
    /\ SpecifiedOr(a.maximumSoc, 100) = SpecifiedOr(b.maximumSoc, 100)

\* two solar systems agree in every setting but the predicted annual output
SameArray(a, b) ==
    /\ a.capacity = b.capacity
    /\ a.orientation = b.orientation
    /\ a.tilt = b.tilt
    /\ a.panelEfficiency = b.panelEfficiency
    /\ a.systemEfficiency = b.systemEfficiency
    /\ a.cost = b.cost
    /\ SpecifiedOr(a.exportRate, 15) = SpecifiedOr(b.exportRate, 15)

\* the rate periods of a non-empty tariff come back in the same order
PeriodsKept ==
    (Shared.ratePeriods # <<>> /\ Shared.ratePeriods[1] # <<>>) =>
        /\ Opened.ratePeriods # <<>>
        /\ Len(Opened.ratePeriods[1]) = Len(Shared.ratePeriods[1])
        /\ \A i \in 1..Len(Shared.ratePeriods[1]) :
              SamePeriod(Opened.ratePeriods[1][i], Shared.ratePeriods[1][i])

BatteryKept ==
    Shared.batteryConfig # <<>> =>
        /\ Opened.batteryConfig # <<>>
        /\ SameBattery(Opened.batteryConfig[1], Shared.batteryConfig[1])

ArrayKept ==
    Shared.solarConfig # <<>> =>
        /\ Opened.solarConfig # <<>>
        /\ SameArray(Opened.solarConfig[1], Shared.solarConfig[1])

PredictedOutputKept ==
    Shared.solarConfig # <<>> =>
        /\ Opened.solarConfig # <<>>
        /\ Opened.solarConfig[1].predictedAnnualOutput
               = Shared.solarConfig[1].predictedAnnualOutput

\* C20: decoding an encoded link returns the rate periods that were encoded
\* (name, start, end, rate, colour, in order) and the battery and solar
\* settings that were encoded, the battery's charge limits and the solar
\* system's predicted annual output among them.
C20_RoundTripKeepsConfiguration ==
    url.pc = "decoded" =>
        /\ PeriodsKept
        /\ BatteryKept
        /\ ArrayKept
        /\ PredictedOutputKept

\* C20, the part that holds: everything but the predicted annual output
\* comes back as it was encoded.
C20_RoundTripKeepsAllButPredictedOutput ==
    url.pc = "decoded" => (PeriodsKept /\ BatteryKept /\ ArrayKept)

\* the clamp at the end of interval i left the state of charge as computed
ClampIdle(i) == run.states[i].stateOfCharge = run.hist[i].beforeClamp

\* C22: in simulateBattery and simulateSolarWithBattery the clamp at the end
\* of each step never changes the state of charge: from the empty battery on,
\* the value already lies within the limits, and an idle interval leaves the
\* state of charge as it was.
C22_ClampNeverActs ==
    HasBattery =>
        \A i \in 1..Len(run.states) :
            /\ ClampIdle(i)
            /\ run.states[i].action = "idle"
                   => run.states[i].stateOfCharge = run.hist[i].priorSoc

\* C22, the part that holds: the clamp leaves the value alone in every
\* interval that starts with the state of charge at or above the floor.
C22_ClampIdleAboveFloor ==
    HasBattery =>
        \A i \in 1..Len(run.states) :
            run.hist[i].priorSoc >= MinSoc(batteryConfig) => ClampIdle(i)

\* C23: in simulateSolarWithBattery the battery does not discharge in an
\* interval whose matched rate equals the cheapest rate of the tariff, also
\* when several periods share that rate.
C23_NoDischargeAtCheapestRate ==
    sim = "combined" =>
        \A i \in 1..Len(run.states) :
            RateOf(i) = LowestRate =>
                /\ run.hist[i].discharged = 0
                /\ run.states[i].action # "discharging"

\* C23, the part that holds: no discharge in an interval matched to the one
\* period the simulator designates as cheap, the first with the cheapest rate.
C23_NoDischargeInDesignatedPeriod ==
    sim = "combined" =>
        \A i \in 1..Len(run.states) :
            matchRatePeriod(data[i].start, ratePeriods).id = CheapPeriod(ratePeriods).id =>
                /\ run.hist[i].discharged = 0
                /\ run.states[i].action # "discharging"

\* interval i discharges the battery / some interval before i charged it
Discharges(i) == run.states[i].action = "discharging"
ChargedBefore(i) == \E j \in 1..(i - 1) : run.states[j].action = "charging"

\* C24: in any run of simulateBattery or simulateSolarWithBattery, every
\* interval whose action is 'discharging' comes after at least one interval
\* whose action is 'charging'.
C24_DischargeOnlyAfterCharge ==
    HasBattery =>
        \A i \in 1..Len(run.states) : Discharges(i) => ChargedBefore(i)

\* a finished run of either simulator in which the battery discharged
C24_Witness ==
    /\ HasBattery
    /\ run.pc = "done"
    /\ \E i \in 1..Len(run.states) : Discharges(i) /\ run.hist[i].discharged > 0

\* energy drawn for charging over the run so far
TotalCharged ==
    SumOver(1..Len(run.hist), [i \in 1..Len(run.hist) |-> run.hist[i].charged])

\* C25: at every point of a simulateBattery run, the energy discharged so far
\* is at most the energy credited to the battery so far, the energy drawn for
\* charging times roundtripEfficiency / 100 (roundtripEfficiency <= 100).
C25_DischargedAtMostCredited ==
    (sim = "battery" /\ batteryConfig.roundtripEfficiency <= 100) =>
        100 * TotalDischarged <= batteryConfig.roundtripEfficiency * TotalCharged

\* a run of simulateBattery that has charged and then discharged
C25_Witness ==
    /\ sim = "battery"
    /\ TotalDischarged > 0
    /\ TotalCharged > 0

\* the energy of interval i that a power recorded for it stands for
EnergyOf(kw, i) == (kw * run.hist[i].intervalHours2) \div 2

\* generation, export and solar consumption of interval i, and the part of
\* its consumption met directly by the generation
GeneratedIn(i) == EnergyOf(run.generations[i].generation, i)
ExportedIn(i) == EnergyOf(run.generations[i].exported, i)
ConsumedIn(i) == EnergyOf(run.generations[i].consumed, i)
DirectIn(i) == ConsumedIn(i) - run.hist[i].discharged

\* C26: in simulateSolarWithBattery, in every interval generation = direct
\* use + energy sent from solar to the battery + exported energy, direct use
\* plus battery discharge is at most the interval's consumption, and the
\* exported energy is at most the interval's generation.
C26_SolarFullyAllocated ==
    sim = "combined" =>
        \A i \in 1..Len(run.generations) :
            /\ GeneratedIn(i) = DirectIn(i) + run.hist[i].charged + ExportedIn(i)
            /\ DirectIn(i) >= 0
            /\ DirectIn(i) + run.hist[i].discharged <= data[i].consumption
            /\ ExportedIn(i) >= 0
            /\ ExportedIn(i) <= GeneratedIn(i)

\* an interval whose generation was used directly, stored and exported
C26_Witness ==
    /\ sim = "combined"
    /\ \E i \in 1..Len(run.generations) :
          /\ DirectIn(i) > 0
          /\ run.hist[i].charged > 0
          /\ ExportedIn(i) > 0

\* the iteration on a point with the grid-charging block left out
WithoutGridCharge(point) ==
    DischargeToDemand(
        ChargeFromSolar(DirectConsumption(IterationLocals(point)),
                        MaxSoc(batteryConfig)),
        MinSoc(batteryConfig))

\* the totals and the generation record of r are those of q
SameTotals(r, q) ==
    /\ r.importSavings = q.importSavings
    /\ r.exportEarnings = q.exportEarnings
    /\ r.totalBatteryCharged = q.totalBatteryCharged
    /\ r.totalBatteryDischarged = q.totalBatteryDischarged
    /\ r.totalSelfConsumed = q.totalSelfConsumed
    /\ r.totalExported = q.totalExported
    /\ r.totalGeneration = q.totalGeneration
    /\ r.generations = q.generations

\* the step just taken is an iteration of simulateSolarWithBattery that
\* charged the battery from the grid
GridChargingStep ==
    /\ sim = "combined"
    /\ run.pc = "run"
    /\ run.idx <= Len(data)
    /\ run'.pc = "run"
    /\ Len(run'.hist) = Len(run.hist) + 1
    /\ run'.hist[Len(run'.hist)].gridCharged > 0

\* C27: in simulateSolarWithBattery, grid-charging the battery in an interval
\* changes only the state of charge, the action and the power flow of that
\* interval: importSavings, exportEarnings, totalBatteryCharged,
\* totalSelfConsumed and totalExported end the interval as they would without
\* the grid charge, so the energy bought never reduces totalSavings.
C27_GridChargeLeavesTotals ==
    [][GridChargingStep =>
          /\ SameTotals(run', CombinedCommit(run, WithoutGridCharge(data[run.idx])))
          /\ run'.importSavings + run'.exportEarnings
                 >= run.importSavings + run.exportEarnings]_vars

\* a run of simulateSolarWithBattery with an interval charged from the grid
C27_Witness ==
    /\ sim = "combined"
    /\ \E i \in 1..Len(run.hist) :
          /\ run.hist[i].gridCharged > 0
          /\ run.states[i].action = "charging"
          /\ run.states[i].powerFlow > 0

\* the sum of the values of savingsByRate
SavingsByRateSum == SumOver(DOMAIN run.savingsByRate, run.savingsByRate)

\* C28: in simulateBattery, after every interval the values of savingsByRate
\* sum to totalSavings, the entry of the designated cheapest period is <= 0
\* and the entry of every other period is >= 0.
C28_SavingsByRateSplit ==
    (sim = "battery" /\ ratePeriods # <<>>) =>
        /\ SavingsByRateSum = run.totalSavings
        /\ run.savingsByRate[CheapPeriod(ratePeriods).id] <= 0
        /\ \A id \in DOMAIN run.savingsByRate :
              id # CheapPeriod(ratePeriods).id => run.savingsByRate[id] >= 0

\* a run of simulateBattery that paid for charging and saved by discharging
C28_Witness ==
    /\ sim = "battery"
    /\ run.savingsByRate[CheapPeriod(ratePeriods).id] < 0
    /\ \E id \in DOMAIN run.savingsByRate : run.savingsByRate[id] > 0

(* Properties of the tariff presets (SpecPreset) *)

\* the periods of the preset matched on are those of the preset with this id
IsPreset(id) == ratePeriods = getTariffById(id).ratePeriods

\* C21: for every tariff of getTariffPresets, every time of day lies (per
\* isTimeInRange) in exactly one of the tariff's periods, so matchRatePeriod
\* never uses its fallback on a preset.
C21_PresetsCoverTheDay ==
    matchTs # -1 =>
        /\ Cardinality(Containing(matchTs, ratePeriods)) = 1
        /\ MatchIndex(matchTs, ratePeriods) # 0

\* C21, the part that holds: every preset but 'good-energy-solar', whose
\* only window runs from 00:00 to 00:00, covers each minute exactly once.
C21_WindowedPresetsCoverTheDay ==
    (matchTs # -1 /\ ~IsPreset("good-energy-solar")) =>
        /\ Cardinality(Containing(matchTs, ratePeriods)) = 1
        /\ MatchIndex(matchTs, ratePeriods) # 0

(* Properties of the store (SpecStore) *)

\* the step just taken cleared loaded consumption data
ClearedData == store.dataLoaded /\ ~store'.dataLoaded

\* dateRange is that of the stored consumption data
DateRangeOfData ==
    store.dateRange # <<>> =>
        /\ store.consumptionData # <<>>
        /\ store.dateRange[1].start = store.consumptionData[1].start
        /\ store.dateRange[1].end
               = store.consumptionData[Len(store.consumptionData)].end

\* C29: after any sequence of store actions from the initial state,
\* dataLoaded is true exactly when fileName is not null, and dateRange is not
\* null only when consumptionData is not empty, and then runs from the first
\* point's start to the last point's end; clearConsumptionData leaves
\* ratePeriods, batteryConfig and solarConfig unchanged.
C29_StoreConsistent ==
    /\ [](store.dataLoaded <=> store.fileName # <<>>)
    /\ []DateRangeOfData
    /\ [][ClearedData =>
              /\ store'.ratePeriods = store.ratePeriods
              /\ store'.batteryConfig = store.batteryConfig
              /\ store'.solarConfig = store.solarConfig]_vars

\* consumption data with a date range is loaded while the tariff and both
\* systems differ from the initial ones: the state the clear button is used in
C29_Witness ==
    /\ store.dataLoaded
    /\ store.dateRange # <<>>
    /\ store.ratePeriods # defaultRatePeriods
    /\ store.batteryConfig # Some(defaultBatteryConfig)
    /\ store.solarConfig # <<>>

\* the rate periods of the store have distinct ids
DistinctIds ==
    \A i, j \in 1..Len(store.ratePeriods) :
        store.ratePeriods[i].id = store.ratePeriods[j].id => i = j

\* C30: starting from the default tariff, after any sequence of additions,
\* edits and deletions of rate periods (deletion being offered while more
\* than one period exists) and of URL loads, the store's ratePeriods list is
\* never empty.
C30_RatePeriodsNeverEmpty == store.ratePeriods # <<>>

\* C30, the part that holds: no operation empties a list of rate periods
\* whose ids are distinct.
C30_DistinctIdsNeverEmptied ==
    [][(DistinctIds /\ store.ratePeriods # <<>>) => store'.ratePeriods # <<>>]_vars

(* Properties of the aggregation (SpecAgg) *)

RECURSIVE SumField(_, _)
SumField(buckets, f) ==
    IF buckets = <<>> THEN 0 ELSE Head(buckets)[f] + SumField(Tail(buckets), f)

AggReturned == agg.pc = "done" /\ Len(data) > 0

\* C6: for every non-empty series and every frame the buckets partition the
\* series: their totalConsumption sums to the consumption of the series and
\* their dataPointCount sums to its length.
C6_BucketsPartitionSeries ==
    AggReturned =>
        /\ SumField(agg.buckets, "totalConsumption") = SumConsumption(data)
        /\ SumField(agg.buckets, "dataPointCount") = Len(data)

\* a series of three readings aggregated into two buckets, one of them
\* holding two readings
C6_Witness ==
    /\ AggReturned
    /\ Len(data) = 3
    /\ Len(agg.buckets) = 2
    /\ \E b \in 1..2 : agg.buckets[b].dataPointCount = 2
    /\ \E i, j \in 1..3 : data[i].consumption # data[j].consumption

\* C7: for the frames day, week, month and year the buckets are emitted in
\* ascending order of the calendar period they cover: every reading of an
\* earlier bucket is earlier than every reading of a later bucket.
C7_BucketsAscending ==
    (AggReturned /\ frame # "all") =>
        \A i, j \in 1..Len(agg.buckets) :
            i < j => agg.buckets[i].peakTime < agg.buckets[j].peakTime

====
